---- MODULE Spec2Model ----
(***************************************************************************)
(* A model of the soledad blob pipeline:                                   *)
(*   client/_crypto.py  - BlobEncryptor, BlobDecryptor, AESWriter,         *)
(*                        encrypt_sym, decrypt_sym, key derivation         *)
(*   server/_blobs.py   - FilesystemBlobsBackend, BlobsResource            *)
(* Byte strings (python 2 str) are sequences of integers 0..255.           *)
(* An optional value is a sequence of length 0 (None) or 1 (the value).    *)
(***************************************************************************)
EXTENDS Integers, Sequences, FiniteSets, TLC

VARIABLES enc, blob, forged, dec, sym, fs, dirs, uploads, log, doc, ops, couch,
          mig

vars == <<enc, blob, forged, dec, sym, fs, dirs, uploads, log, doc, ops, couch, mig>>

\* ------------------------------------------------------------------ bounds
\* cleartexts are all strings over ClearAlphabet up to this length, plus BigClear
MaxClearLen == 1
\* the producers' readSize is 2**16 = 4 * 16384; the model reads 4 * ReadGroups
ReadGroups == 1
\* the number of PUT requests the blobs server receives
MaxPuts == 2
\* the backend's quota in KB (200 * 1024 by default), scaled to the model's blobs
Quota == 24

\* bytes FileBodyProducer moves from the request body to the file per iteration
UploadChunk == 16

\* most chunks written to an AESWriter that was not finalized
MaxWrites == 2

\* the documents and the sync replicas a user database holds at most, and the
\* number of times migrate is run on a server
MaxDocs == 2
MaxReplicas == 2
MaxRuns == 2

\* ------------------------------------------------------- program constants
SECRET_LENGTH == 64
TAG_LEN == 16
KEY_LEN == 32
PSTR_LEN == 255
PACMAN_size == 552
LEGACY_PACMAN_size == 542

SEPARATOR == <<32>>
BLOB_SIGNATURE_MAGIC == <<19, 55>>
ENC_SCHEME_symkey == 1
ENC_METHOD_aes_256_ctr == 1
ENC_METHOD_aes_256_gcm == 2

ReadSize == 4 * ReadGroups

\* ------------------------------------------------------------ byte strings
None == <<>>
Some(v) == <<v>>

Rep(c, n) == [i \in 1..n |-> c]

Min(a, b) == IF a < b THEN a ELSE b

Max(a, b) == IF a > b THEN a ELSE b

\* python slices s[a:] and s[:n] (0-based a, n >= 0)
SliceFrom(s, a) == SubSeq(s, a + 1, Len(s))

SliceTo(s, n) == SubSeq(s, 1, Min(n, Len(s)))

\* python s[:-n] and s[-n:] for n > 0
DropLast(s, n) == SubSeq(s, 1, Len(s) - n)

TakeLast(s, n) == SubSeq(s, Max(1, Len(s) - n + 1), Len(s))

RECURSIVE SumRange(_, _, _)
SumRange(s, lo, hi) ==
    IF lo > hi THEN 0
    ELSE IF lo = hi THEN s[lo]
    ELSE LET mid == (lo + hi) \div 2
         IN  SumRange(s, lo, mid) + SumRange(s, mid + 1, hi)

RECURSIVE Xor(_, _)
Xor(a, b) ==
    IF a = 0 THEN b
    ELSE IF b = 0 THEN a
    ELSE 2 * Xor(a \div 2, b \div 2) + ((a + b) % 2)

\* A position-weighted checksum standing for a cryptographic digest: every
\* single-byte change of s changes it (65521 is prime, weights are < 65521).
\* DigestUpdate continues the digest h of len bytes with more data.
DigestUpdate(h, len, data) ==
    (h + SumRange([i \in 1..Len(data) |-> ((len + i) * (data[i] + 1)) % 65521],
                  1, Len(data))) % 65521

Digest(s) == DigestUpdate(0, 0, s)

\* ------------------------------------------------------------------ base64
\* base64.b64encode / urlsafe_b64encode: 3 bytes -> 4 characters of
\* A-Z a-z 0-9 and '+' '/' (url-safe: '-' '_'), '=' padding
B64Char(v, urlsafe) ==
    IF v < 26 THEN 65 + v
    ELSE IF v < 52 THEN 97 + (v - 26)
    ELSE IF v < 62 THEN 48 + (v - 52)
    ELSE IF v = 62 THEN (IF urlsafe THEN 45 ELSE 43)
    ELSE (IF urlsafe THEN 95 ELSE 47)

B64Encode(b, urlsafe) ==
    LET n == Len(b)
        At(k) == IF k <= n THEN b[k] ELSE 0
        Ch(i) ==
            LET g  == (i - 1) \div 4
                j  == (i - 1) % 4
                b0 == At(3 * g + 1)
                b1 == At(3 * g + 2)
                b2 == At(3 * g + 3)
            IN  CASE j = 0 -> B64Char(b0 \div 4, urlsafe)
                  [] j = 1 -> B64Char((b0 % 4) * 16 + (b1 \div 16), urlsafe)
                  [] j = 2 -> IF 3 * g + 2 > n THEN 61
                              ELSE B64Char((b1 % 16) * 4 + (b2 \div 64), urlsafe)
                  [] OTHER -> IF 3 * g + 3 > n THEN 61
                              ELSE B64Char(b2 % 64, urlsafe)
    IN  [i \in 1..(4 * ((n + 2) \div 3)) |-> Ch(i)]

b64encode(b) == B64Encode(b, FALSE)

urlsafe_b64encode(b) == B64Encode(b, TRUE)

\* the value of a character in the decode table; the url-safe decoder first
\* translates '-' to '+' and '_' to '/' ('+' and '/' stay valid); -1: not in the table
B64Val(c, urlsafe) ==
    IF c >= 65 /\ c <= 90 THEN c - 65
    ELSE IF c >= 97 /\ c <= 122 THEN c - 97 + 26
    ELSE IF c >= 48 /\ c <= 57 THEN c - 48 + 52
    ELSE IF c = 43 \/ (urlsafe /\ c = 45) THEN 62
    ELSE IF c = 47 \/ (urlsafe /\ c = 95) THEN 63
    ELSE -1

\* base64.b64decode / urlsafe_b64decode (python 2: binascii.a2b_base64):
\* characters outside the table are skipped; a '=' ends the input when 3
\* characters of the quad were read, or 2 and the next table character is '=';
\* bits left over at the end raise TypeError ("Incorrect padding").
\* err = "" when the decode succeeds.
B64Decode(s, urlsafe) ==
    LET n       == Len(s)
        IsData(c) == B64Val(c, urlsafe) >= 0
        DataBefore(p) == Len(SelectSeq(SubSeq(s, 1, p - 1), IsData))
        NextValid(p) ==
            LET later == {q \in (p + 1)..n : IsData(s[q]) \/ s[q] = 61}
            IN  IF later = {} THEN -1
                ELSE s[CHOOSE q \in later : \A r \in later : q <= r]
        Ends(p) ==
            /\ s[p] = 61
            /\ LET qp == DataBefore(p) % 4
               IN  qp = 3 \/ (qp = 2 /\ NextValid(p) = 61)
        stops   == {p \in 1..n : Ends(p)}
        stop    == IF stops = {} THEN n + 1
                   ELSE CHOOSE p \in stops : \A r \in stops : p <= r
        d       == SelectSeq(SubSeq(s, 1, stop - 1), IsData)
        m       == Len(d)
        V(k)    == B64Val(d[k], urlsafe)
        Byte(k) ==
            LET g == (k - 1) \div 3
                r == (k - 1) % 3
            IN  CASE r = 0 -> V(4 * g + 1) * 4 + (V(4 * g + 2) \div 16)
                  [] r = 1 -> (V(4 * g + 2) % 16) * 16 + (V(4 * g + 3) \div 4)
                  [] OTHER -> (V(4 * g + 3) % 4) * 64 + V(4 * g + 4)
        padded  == stop <= n
    IN  IF ~padded /\ (6 * m) % 8 # 0
        THEN [err |-> "TypeError", val |-> <<>>]
        ELSE [err |-> "", val |-> [k \in 1..((6 * m) \div 8) |-> Byte(k)]]

b64decode(s) == B64Decode(s, FALSE)

urlsafe_b64decode(s) == B64Decode(s, TRUE)

\* ----------------------------------------------------------- struct layout
\* struct.Struct('2sbbQ16s255p255pQ'), native alignment:
\*   magic 1..2, scheme 3, method 4, pad 5..8, timestamp 9..16, iv 17..32,
\*   doc_id 33..287, rev 288..542, pad 543..544, size 545..552
PackS(s, n) == [i \in 1..n |-> IF i <= Len(s) THEN s[i] ELSE 0]

\* 'Q': 8 bytes, little endian; the model's integers stay below 2^31
PackQ(v) ==
    [k \in 1..8 |->
        CASE k = 1 -> v % 256
          [] k = 2 -> (v \div 256) % 256
          [] k = 3 -> (v \div 65536) % 256
          [] k = 4 -> (v \div 16777216) % 256
          [] OTHER -> 0]

UnpackQ(b) == b[1] + 256 * b[2] + 65536 * b[3] + 16777216 * (b[4] % 128)

\* 'b': signed char
UnpackB(x) == IF x > 127 THEN x - 256 ELSE x

\* '255p': a length byte and 254 bytes; a longer string is cut to 254 bytes
PackP(s) ==
    LET n == Min(Len(s), PSTR_LEN - 1)
    IN  <<n>> \o SubSeq(s, 1, n) \o Rep(0, PSTR_LEN - 1 - n)

UnpackP(b) == SubSeq(b, 2, 1 + Min(b[1], PSTR_LEN - 1))

LEGACY_PACMAN_pack(magic, sch, meth, ts, iv, doc_id, rev) ==
    PackS(magic, 2) \o <<sch % 256, meth % 256>> \o Rep(0, 4) \o PackQ(ts)
        \o PackS(iv, 16) \o PackP(doc_id) \o PackP(rev)

PACMAN_pack(magic, sch, meth, ts, iv, doc_id, rev, size) ==
    LEGACY_PACMAN_pack(magic, sch, meth, ts, iv, doc_id, rev)
        \o Rep(0, 2) \o PackQ(size)

LEGACY_PACMAN_unpack(p) ==
    [magic  |-> SubSeq(p, 1, 2),
     sch    |-> UnpackB(p[3]),
     meth   |-> UnpackB(p[4]),
     ts     |-> UnpackQ(SubSeq(p, 9, 16)),
     iv     |-> SubSeq(p, 17, 32),
     doc_id |-> UnpackP(SubSeq(p, 33, 287)),
     rev    |-> UnpackP(SubSeq(p, 288, 542))]

PACMAN_unpack(p) ==
    [magic    |-> SubSeq(p, 1, 2),
     sch      |-> UnpackB(p[3]),
     meth     |-> UnpackB(p[4]),
     ts       |-> UnpackQ(SubSeq(p, 9, 16)),
     iv       |-> SubSeq(p, 17, 32),
     doc_id   |-> UnpackP(SubSeq(p, 33, 287)),
     rev      |-> UnpackP(SubSeq(p, 288, 542)),
     doc_size |-> UnpackQ(SubSeq(p, 545, 552))]

\* ------------------------------------------------------- crypto primitives
\* hmac.new(key, data, hashlib.sha256).digest(): 32 bytes
hmac_sha256(key, data) ==
    LET h == (Digest(key) * 251 + Digest(data) * 7 + Len(key) + 1) % 65521
    IN  [i \in 1..KEY_LEN |->
            CASE i = 1 -> h % 256
              [] i = 2 -> h \div 256
              [] OTHER -> (h * i + 13) % 256]

get_sym_key_for_doc(doc_id, secret) ==
    LET key == SliceFrom(secret, SECRET_LENGTH)
    IN  hmac_sha256(key, doc_id)

\* the AES counter-mode key stream byte at 0-based offset i
KeyStream(key, iv, i) == (Digest(key) + 3 * Digest(iv) + 7 * i + 1) % 256

\* the 16-byte GCM authentication tag of a cipher context: over the digests
\* and lengths of the associated data and of the ciphertext it was fed
GcmTag(c) ==
    LET h == (Digest(c.key) + 3 * Digest(c.iv) + 5 * c.aadH + 11 * c.ctH
              + c.aadLen + 17 * c.n) % 65521
    IN  [k \in 1..TAG_LEN |->
            CASE k = 1 -> h % 256
              [] k = 2 -> h \div 256
              [] OTHER -> (h * k + 1) % 256]

NoCipher ==
    [made |-> FALSE, mode |-> "", decrypt |-> FALSE, key |-> <<>>, iv |-> <<>>,
     tagIn |-> None, aadH |-> 0, aadLen |-> 0, ctH |-> 0, n |-> 0,
     finalized |-> FALSE,
     tag |-> None, verified |-> FALSE]

\* _get_aes_cipher followed by cipher.decryptor() / cipher.encryptor()
get_aes_cipher(key, iv, tag, mode, decrypt) ==
    [NoCipher EXCEPT !.made = TRUE, !.mode = mode, !.decrypt = decrypt,
                     !.key = key, !.iv = iv, !.tagIn = tag]

\* cipher.update(data) of a context that restarts its counter at every call
CipherUpdateOutRestart(c, data) ==
    [i \in 1..Len(data) |-> Xor(data[i], KeyStream(c.key, c.iv, i - 1))]

\* cipher.update(data): the bytes it returns
CipherUpdateOut(c, data) ==
    [i \in 1..Len(data) |-> Xor(data[i], KeyStream(c.key, c.iv, c.n + i - 1))]

\* cipher.update(data): the context afterwards
CipherUpdate(c, data) ==
    [c EXCEPT !.n = c.n + Len(data),
              !.ctH = DigestUpdate(c.ctH, c.n,
                          IF c.decrypt THEN data ELSE CipherUpdateOut(c, data))]

\* cipher.authenticate_additional_data(data)
CipherAuthenticate(c, data) ==
    [c EXCEPT !.aadLen = c.aadLen + Len(data),
              !.aadH = DigestUpdate(c.aadH, c.aadLen, data)]

\* cipher.finalize(): "" or "InvalidTag"
CipherFinalizeErr(c) ==
    IF c.mode = "GCM" /\ c.decrypt /\ c.tagIn # Some(GcmTag(c))
    THEN "InvalidTag"
    ELSE ""

CipherFinalize(c) ==
    [c EXCEPT !.finalized = TRUE,
              !.tag = IF c.mode = "GCM" /\ ~c.decrypt
                      THEN Some(GcmTag(c))
                      ELSE c.tag,
              !.verified = c.mode = "GCM" /\ c.decrypt /\ CipherFinalizeErr(c) = ""]

\* --------------------------------------------------------------- AESWriter
\* calls lists the methods called on the writer since its construction
NoAES ==
    [err |-> "", iv |-> <<>>, buffer |-> <<>>, aead |-> <<>>, cipher |-> NoCipher,
     calls |-> <<>>]

\* AESWriter.__init__ without its check of the key length
AESWriterBadKeyAccepted(key, iv, buffer, tag, mode, rnd) ==
    IF tag # None /\ iv = None
    THEN [NoAES EXCEPT !.err = "AssertionError"]
    ELSE IF mode = "GCM" /\ tag # None /\ Len(tag[1]) < TAG_LEN
    THEN [NoAES EXCEPT !.err = "ValueError"]
    ELSE IF mode = "CTR" /\ iv # None /\ iv[1] # <<>> /\ Len(iv[1]) # 16
    THEN [NoAES EXCEPT !.err = "ValueError"]
    ELSE LET useIv == IF iv # None /\ iv[1] # <<>> THEN iv[1] ELSE rnd
             isDec == tag # None /\ tag[1] # <<>>
         IN  [NoAES EXCEPT !.iv = useIv, !.buffer = buffer,
                           !.cipher = get_aes_cipher(key, useIv, tag, mode, isDec)]

\* AESWriter.__init__(key, iv, _buffer, tag, mode); rnd stands for os.urandom(16)
AESWriter_init(key, iv, buffer, tag, mode, rnd) ==
    IF Len(key) # KEY_LEN
    THEN [NoAES EXCEPT !.err = "EncryptionDecryptionError"]
    ELSE IF tag # None /\ iv = None
    THEN [NoAES EXCEPT !.err = "AssertionError"]
    ELSE IF mode = "GCM" /\ tag # None /\ Len(tag[1]) < TAG_LEN
    THEN [NoAES EXCEPT !.err = "ValueError"]
    ELSE IF mode = "CTR" /\ iv # None /\ iv[1] # <<>> /\ Len(iv[1]) # 16
    THEN [NoAES EXCEPT !.err = "ValueError"]
    ELSE LET useIv == IF iv # None /\ iv[1] # <<>> THEN iv[1] ELSE rnd
             isDec == tag # None /\ tag[1] # <<>>
         IN  [NoAES EXCEPT !.iv = useIv, !.buffer = buffer,
                           !.cipher = get_aes_cipher(key, useIv, tag, mode, isDec)]

\* AESWriter.authenticate(data)
AESWriter_authenticate(w, data) ==
    [w EXCEPT !.aead = w.aead \o data, !.cipher = CipherAuthenticate(w.cipher, data),
              !.calls = Append(w.calls, "authenticate")]

\* AESWriter.tag
AESWriter_tag(w) == w.cipher.tag

\* AESWriter.write(data) on a cipher context that takes chunks after finalize
AESWriter_write_unchecked(w, data) ==
    [w EXCEPT !.buffer = w.buffer \o CipherUpdateOut(w.cipher, data),
              !.cipher = CipherUpdate(w.cipher, data),
              !.calls = Append(w.calls, "write")]

\* AESWriter.write(data); a finalized cipher context raises AlreadyFinalized
AESWriter_write(w, data) ==
    IF w.cipher.finalized
    THEN [w EXCEPT !.err = "AlreadyFinalized", !.calls = Append(w.calls, "write")]
    ELSE [w EXCEPT !.buffer = w.buffer \o CipherUpdateOut(w.cipher, data),
                   !.cipher = CipherUpdate(w.cipher, data),
                   !.calls = Append(w.calls, "write")]

\* AESWriter.end(): the writer afterwards; it returns (w.aead, w.buffer)
AESWriter_end(w) ==
    IF w.cipher.finalized
    THEN [w EXCEPT !.err = "AlreadyFinalized", !.calls = Append(w.calls, "end")]
    ELSE IF CipherFinalizeErr(w.cipher) # ""
    THEN [w EXCEPT !.err = CipherFinalizeErr(w.cipher), !.cipher.finalized = TRUE,
                   !.calls = Append(w.calls, "end")]
    ELSE [w EXCEPT !.cipher = CipherFinalize(w.cipher),
                   !.calls = Append(w.calls, "end")]

\* ------------------------------------------------------------------ inputs
ClearAlphabet == {97, 98}

\* "rosa de foc"
BigClear == <<114, 111, 115, 97, 32, 100, 101, 32, 102, 111, 99>>

Cleartexts ==
    UNION {[1..k -> ClearAlphabet] : k \in 0..MaxClearLen} \cup {BigClear}

\* no secret, a secret shorter than SECRET_LENGTH, 'A' * 96
Secrets == {<<>>, Rep(65, 10), Rep(65, 96)}

DocIdA == <<68, 49>>

DocIdB == <<68, 50>>

DocIdLong254 == Rep(97, PSTR_LEN - 1)

DocIdLong255 == Rep(97, PSTR_LEN - 1) \o <<98>>

RevA == <<49>>

RevB == <<50>>

DocInfos ==
    {[doc_id |-> DocIdA, rev |-> RevA],
     [doc_id |-> DocIdB, rev |-> RevA],
     [doc_id |-> DocIdA, rev |-> RevB],
     [doc_id |-> DocIdLong254, rev |-> RevA],
     [doc_id |-> DocIdLong255, rev |-> RevA]}

\* values of os.urandom(16)
IVs == {Rep(1, 16), [i \in 1..16 |-> 16 + i]}

\* values of int(time.time())
Timestamps == {1500000000}

\* ----------------------------------------------------------- BlobEncryptor
\* BlobEncryptor._encode_preamble
encode_preamble(doc_id, rev, iv, content_size, current_time) ==
    PACMAN_pack(BLOB_SIGNATURE_MAGIC, ENC_SCHEME_symkey, ENC_METHOD_aes_256_gcm,
                current_time, iv, doc_id, rev, content_size)

\* the arguments of a BlobEncryptor before its constructor has run
EncIdle(secret, doc_info, content, armor) ==
    [st |-> "idle", err |-> "", secret |-> secret, doc_id |-> doc_info.doc_id,
     rev |-> doc_info.rev, armor |-> armor, content |-> content, fdpos |-> 0,
     content_size |-> 0, sym_key |-> <<>>, aes |-> NoAES, fdClosed |-> FALSE]

\* BlobEncryptor.__init__
BlobEncryptor_new(e, rnd, now) ==
    IF e.secret = <<>>
    THEN [e EXCEPT !.st = "failed", !.err = "EncryptionDecryptionError"]
    ELSE LET size == Len(e.content)
             key  == get_sym_key_for_doc(e.doc_id, e.secret)
             aes  == AESWriter_init(key, None, <<>>, None, "GCM", rnd)
         IN  IF aes.err # ""
             THEN [e EXCEPT !.st = "failed", !.err = aes.err]
             ELSE [e EXCEPT !.st = "init", !.fdpos = 0, !.content_size = size,
                            !.sym_key = key,
                            !.aes = AESWriter_authenticate(aes,
                                encode_preamble(e.doc_id, e.rev, aes.iv, size, now))]

\* _end_crypto_stream writing the tag before the ciphertext
end_crypto_stream_tag_first(armor, aes) ==
    LET preamble  == aes.aead
        encrypted == aes.buffer
        tag       == AESWriter_tag(aes)[1]
    IN  urlsafe_b64encode(preamble) \o SEPARATOR
            \o (IF armor THEN urlsafe_b64encode(tag \o encrypted)
                ELSE tag \o encrypted)

\* _end_crypto_stream writing the preamble raw and no separator when unarmored
end_crypto_stream_raw(armor, aes) ==
    LET preamble  == aes.aead
        encrypted == aes.buffer
        tag       == AESWriter_tag(aes)[1]
    IN  IF armor
        THEN urlsafe_b64encode(preamble) \o SEPARATOR
                 \o urlsafe_b64encode(encrypted \o tag)
        ELSE preamble \o encrypted \o tag

\* BlobEncryptor._end_crypto_stream: the bytes of the result
end_crypto_stream(armor, aes) ==
    LET preamble  == aes.aead
        encrypted == aes.buffer
        tag       == AESWriter_tag(aes)[1]
    IN  urlsafe_b64encode(preamble) \o SEPARATOR
            \o (IF armor THEN urlsafe_b64encode(encrypted \o tag)
                ELSE encrypted \o tag)

\* ----------------------------------------------------------- BlobDecryptor
IsSpace(c) == c \in {9, 10, 11, 12, 13, 32}

NotSpace(c) == ~IsSpace(c)

\* str.split(): [first |-> parts[0], rest |-> ''.join(parts[1:])], none when parts = []
SplitParts(s) ==
    LET n      == Len(s)
        starts == {i \in 1..n : NotSpace(s[i])}
    IN  IF starts = {}
        THEN [none |-> TRUE, first |-> <<>>, rest |-> <<>>]
        ELSE LET a    == CHOOSE i \in starts : \A j \in starts : i <= j
                 gaps == {i \in a..n : IsSpace(s[i])}
                 b    == IF gaps = {} THEN n + 1
                         ELSE CHOOSE i \in gaps : \A j \in gaps : i <= j
             IN  [none  |-> FALSE,
                  first |-> SubSeq(s, a, b - 1),
                  rest  |-> SelectSeq(SubSeq(s, b, n), NotSpace)]

NoPreamble ==
    [err |-> "", reason |-> "", preamble |-> <<>>, iv |-> <<>>, size |-> None,
     fd |-> <<>>]

\* the checks of the preamble without the comparison of rev and doc_id
PreambleCheckNoIdentity(u, doc_id, rev) ==
    IF u.magic # BLOB_SIGNATURE_MAGIC THEN "InvalidBlob()"
    ELSE IF u.sch # ENC_SCHEME_symkey THEN "invalid scheme"
    ELSE IF u.meth # ENC_METHOD_aes_256_gcm THEN "invalid encryption scheme"
    ELSE "ok"

\* the checks of BlobDecryptor._consume_preamble on the unpacked fields: the
\* argument of the InvalidBlob raised, "ok" when every check passes
PreambleCheck(u, doc_id, rev) ==
    IF u.magic # BLOB_SIGNATURE_MAGIC THEN "InvalidBlob()"
    ELSE IF u.sch # ENC_SCHEME_symkey THEN "invalid scheme"
    ELSE IF u.meth # ENC_METHOD_aes_256_gcm THEN "invalid encryption scheme"
    ELSE IF u.rev # rev THEN "invalid revision"
    ELSE IF u.doc_id # doc_id THEN "invalid revision"
    ELSE "ok"

\* BlobDecryptor._consume_preamble after unpacking: the identity checks, then
\* the preamble, the iv, the size and the rest of the fd are kept
consume_unpacked(u, size, p, value, rest, doc_id, rev) ==
    IF PreambleCheck(u, doc_id, rev) # "ok"
    THEN [NoPreamble EXCEPT !.err = "InvalidBlob",
                            !.reason = PreambleCheck(u, doc_id, rev),
                            !.size = size, !.fd = value]
    ELSE [NoPreamble EXCEPT !.preamble = p, !.iv = u.iv, !.size = size, !.fd = rest]

\* the dispatch on the length of the preamble, taking every length but the
\* current one for the legacy layout
consume_decoded_any_size(decoded, value, rest, doc_id, rev) ==
    IF decoded.err # ""
    THEN [NoPreamble EXCEPT !.err = "InvalidBlob", !.reason = "InvalidBlob()",
                            !.fd = value]
    ELSE IF Len(decoded.val) = PACMAN_size
    THEN consume_unpacked(PACMAN_unpack(decoded.val),
                          Some(PACMAN_unpack(decoded.val).doc_size), decoded.val,
                          value, rest, doc_id, rev)
    ELSE IF Len(decoded.val) >= LEGACY_PACMAN_size
    THEN consume_unpacked(LEGACY_PACMAN_unpack(decoded.val), None, decoded.val,
                          value, rest, doc_id, rev)
    ELSE [NoPreamble EXCEPT !.err = "InvalidBlob",
                            !.reason = "Unexpected preamble size", !.fd = value]

\* BlobDecryptor._consume_preamble after base64url decoding: the dispatch on
\* the length of the decoded preamble
consume_decoded(decoded, value, rest, doc_id, rev) ==
    IF decoded.err # ""
    THEN [NoPreamble EXCEPT !.err = "InvalidBlob", !.reason = "InvalidBlob()",
                            !.fd = value]
    ELSE IF Len(decoded.val) = LEGACY_PACMAN_size
    THEN consume_unpacked(LEGACY_PACMAN_unpack(decoded.val), None, decoded.val,
                          value, rest, doc_id, rev)
    ELSE IF Len(decoded.val) = PACMAN_size
    THEN consume_unpacked(PACMAN_unpack(decoded.val),
                          Some(PACMAN_unpack(decoded.val).doc_size), decoded.val,
                          value, rest, doc_id, rev)
    ELSE [NoPreamble EXCEPT !.err = "InvalidBlob",
                            !.reason = "Unexpected preamble size", !.fd = value]

\* BlobDecryptor._consume_preamble after splitting the fd on whitespace
consume_parts(parts, value, doc_id, rev) ==
    IF parts.none
    THEN [NoPreamble EXCEPT !.err = "IndexError", !.fd = value]
    ELSE consume_decoded(urlsafe_b64decode(parts.first), value, parts.rest,
                         doc_id, rev)

\* BlobDecryptor._consume_preamble on the bytes of the ciphertext fd
consume_preamble(value, doc_id, rev) ==
    consume_parts(SplitParts(value), value, doc_id, rev)

\* a BlobDecryptor that was not constructed yet
DecIdle ==
    [st |-> "idle", err |-> "", reason |-> "", secret |-> <<>>, doc_id |-> <<>>,
     rev |-> <<>>, armor |-> TRUE, resultGiven |-> FALSE, fd |-> <<>>, fdpos |-> 0,
     size |-> None, aes |-> NoAES, ptag |-> None, out |-> None,
     fdClosed |-> FALSE]

DecFailed(d, err, reason) == [d EXCEPT !.st = "failed", !.err = err, !.reason = reason]

\* BlobDecryptor.__init__(doc_info, ciphertext_fd, result, secret, armor)
BlobDecryptor_new(value, doc_info, secret, armor, resultGiven, rnd) ==
    LET d0 == [DecIdle EXCEPT !.secret = secret, !.doc_id = doc_info.doc_id,
                              !.rev = doc_info.rev, !.armor = armor,
                              !.resultGiven = resultGiven, !.fd = value]
    IN  IF secret = <<>> THEN DecFailed(d0, "EncryptionDecryptionError", "no secret given")
        ELSE IF ~armor THEN DecFailed(d0, "NotImplementedError", "")
        ELSE LET cp == consume_preamble(value, doc_info.doc_id, doc_info.rev)
             IN  IF cp.err # ""
                 THEN DecFailed([d0 EXCEPT !.size = cp.size], cp.err, cp.reason)
                 ELSE LET sym_key == get_sym_key_for_doc(doc_info.doc_id, secret)
                          aes     == AESWriter_init(sym_key, Some(cp.iv), <<>>, None,
                                                    "GCM", rnd)
                      IN  IF aes.err # ""
                          THEN DecFailed([d0 EXCEPT !.size = cp.size, !.fd = cp.fd],
                                         aes.err, "")
                          ELSE [d0 EXCEPT !.st = "ready", !.size = cp.size,
                                          !.fd = cp.fd, !.fdpos = 0,
                                          !.aes = AESWriter_authenticate(aes, cp.preamble)]

\* one iteration of CryptoStreamBodyProducer._writeloop that read a chunk
writeloop_chunk(d) ==
    LET chunk   == SubSeq(d.fd, d.fdpos + 1, Min(Len(d.fd), d.fdpos + ReadSize))
        decoded == urlsafe_b64decode(chunk)
    IN  IF decoded.err # ""
        THEN DecFailed([d EXCEPT !.fdpos = d.fdpos + Len(chunk)], decoded.err, "")
        ELSE [d EXCEPT !.st = "producing", !.fdpos = d.fdpos + Len(chunk),
                       !.aes = AESWriter_write(d.aes, decoded.val)]

\* _end_stream without the truncation of the result buffer
end_stream_keeps_tag(d) ==
    LET aes == AESWriter_end(d.aes)
    IN  IF aes.err = "InvalidTag"
        THEN DecFailed([d EXCEPT !.aes = aes], "InvalidBlob",
                       "Invalid Tag. Blob authentication failed.")
        ELSE IF aes.err # ""
        THEN DecFailed([d EXCEPT !.aes = aes], aes.err, "")
        ELSE [d EXCEPT !.st = "done", !.aes = aes, !.out = Some(aes.buffer)]

\* BlobDecryptor._end_stream: the result buffer loses its last 16 bytes
end_stream(d) ==
    LET aes == AESWriter_end(d.aes)
    IN  IF aes.err = "InvalidTag"
        THEN DecFailed([d EXCEPT !.aes = aes], "InvalidBlob",
                       "Invalid Tag. Blob authentication failed.")
        ELSE IF aes.err # ""
        THEN DecFailed([d EXCEPT !.aes = aes], aes.err, "")
        ELSE LET kept == SubSeq(aes.buffer, 1, Max(0, Len(aes.buffer) - TAG_LEN))
             IN  [d EXCEPT !.st = "done", !.aes = [aes EXCEPT !.buffer = kept],
                           !.out = Some(kept)]

\* the last iteration of CryptoStreamBodyProducer._writeloop (_writeTag, close)
\* and the callback of BlobDecryptor.decrypt
writeloop_end(d) ==
    end_stream([d EXCEPT !.ptag = Some(TakeLast(d.fd, TAG_LEN)), !.fdpos = 0,
                         !.fdClosed = TRUE])

\* ------------------------------------------------- the blob in transit
\* blob holds the bytes BlobEncryptor.encrypt delivered, until a BlobDecryptor
\* is constructed on them (from then on they are the decryptor's fd)
\* the blob with its preamble re-framed: the legacy layout (no size field), one
\* byte short, or one byte long
ReframeKinds == {"legacy", "short", "long"}

Reframe(b, kind) ==
    LET parts == SplitParts(b)
        p     == urlsafe_b64decode(parts.first).val
        q     == CASE kind = "legacy" -> SubSeq(p, 1, LEGACY_PACMAN_size)
                   [] kind = "short"  -> SubSeq(p, 1, Len(p) - 1)
                   [] OTHER           -> p \o <<0>>
    IN  urlsafe_b64encode(q) \o SEPARATOR \o parts.rest

\* the armored blob with bit `bit` of byte `pos` of ciphertext || tag flipped
FlipBits == {0, 7}

BitValue(bit) == IF bit = 0 THEN 1 ELSE 128

FlipPayloadBit(b, pos, bit) ==
    LET parts == SplitParts(b)
        raw   == urlsafe_b64decode(parts.rest).val
        bad   == [raw EXCEPT ![pos] = Xor(raw[pos], BitValue(bit))]
    IN  parts.first \o SEPARATOR \o urlsafe_b64encode(bad)

\* the number of bytes of ciphertext || tag in an armored blob
PayloadLen(b) == Len(urlsafe_b64decode(SplitParts(b).rest).val)

\* the bytes of ciphertext || tag a bit is flipped in: the first and the last
\* byte of the ciphertext, the first and the last byte of the tag
FlipPositions(b) ==
    LET n == PayloadLen(b)
    IN  {1, n - TAG_LEN, n - TAG_LEN + 1, n} \cap (1..n)

\* ------------------------------------------------- one-shot helpers
\* _mode_by_method
mode_by_method(method) ==
    IF method = ENC_METHOD_aes_256_gcm THEN "GCM" ELSE "CTR"

SymIdle(data, key, method) ==
    [st |-> "idle", err |-> "", data |-> data, orig |-> data, key |-> key,
     method |-> method, iv |-> <<>>, out |-> <<>>, aes |-> NoAES]

\* encrypt_sym(data, key, method): iv and out are the pair it returns
encrypt_sym(data, key, method, rnd) ==
    LET mode == mode_by_method(method)
        w0   == AESWriter_init(key, None, <<>>, None, mode, rnd)
        w    == AESWriter_end(AESWriter_write(w0, data))
        tag  == IF AESWriter_tag(w) = None THEN <<>> ELSE AESWriter_tag(w)[1]
    IN  IF w0.err # ""
        THEN [SymIdle(data, key, method) EXCEPT !.st = "failed", !.err = w0.err,
                                                !.aes = w0]
        ELSE [SymIdle(data, key, method) EXCEPT !.st = "encrypted",
                  !.iv = b64encode(w.iv), !.out = w.buffer \o tag, !.aes = w]

\* decrypt_sym that leaves the tag at the end of the data it decrypts
decrypt_sym_keeps_tag(data, key, iv, method, rnd) ==
    LET ivd  == b64decode(iv)
        mode == mode_by_method(method)
        tag  == IF mode = "GCM" THEN Some(TakeLast(data, TAG_LEN)) ELSE None
        w0   == AESWriter_init(key, Some(ivd.val), <<>>, tag, mode, rnd)
        w    == AESWriter_end(AESWriter_write(w0, data))
        s0   == [SymIdle(data, key, method) EXCEPT !.iv = iv]
    IN  IF ivd.err # ""
        THEN [s0 EXCEPT !.st = "failed", !.err = ivd.err]
        ELSE IF w0.err # ""
        THEN [s0 EXCEPT !.st = "failed", !.err = w0.err, !.aes = w0]
        ELSE IF w.err # ""
        THEN [s0 EXCEPT !.st = "failed", !.err = w.err, !.aes = w]
        ELSE [s0 EXCEPT !.st = "decrypted", !.out = w.buffer, !.aes = w]

\* decrypt_sym that constructs its AESWriter without the tag
decrypt_sym_untagged(data, key, iv, method, rnd) ==
    LET ivd  == b64decode(iv)
        mode == mode_by_method(method)
        body == IF mode = "GCM" THEN DropLast(data, TAG_LEN) ELSE data
        w0   == AESWriter_init(key, Some(ivd.val), <<>>, None, mode, rnd)
        w    == AESWriter_end(AESWriter_write(w0, body))
        s0   == [SymIdle(data, key, method) EXCEPT !.iv = iv]
    IN  IF ivd.err # ""
        THEN [s0 EXCEPT !.st = "failed", !.err = ivd.err]
        ELSE IF w0.err # ""
        THEN [s0 EXCEPT !.st = "failed", !.err = w0.err, !.aes = w0]
        ELSE IF w.err # ""
        THEN [s0 EXCEPT !.st = "failed", !.err = w.err, !.aes = w]
        ELSE [s0 EXCEPT !.st = "decrypted", !.out = w.buffer, !.aes = w]

\* decrypt_sym(data, key, iv, method): out is the plaintext it returns
decrypt_sym(data, key, iv, method, rnd) ==
    LET ivd  == b64decode(iv)
        mode == mode_by_method(method)
        body == IF mode = "GCM" THEN DropLast(data, TAG_LEN) ELSE data
        tag  == IF mode = "GCM" THEN Some(TakeLast(data, TAG_LEN)) ELSE None
        w0   == AESWriter_init(key, Some(ivd.val), <<>>, tag, mode, rnd)
        w    == AESWriter_end(AESWriter_write(w0, body))
        s0   == [SymIdle(data, key, method) EXCEPT !.iv = iv]
    IN  IF ivd.err # ""
        THEN [s0 EXCEPT !.st = "failed", !.err = ivd.err]
        ELSE IF w0.err # ""
        THEN [s0 EXCEPT !.st = "failed", !.err = w0.err, !.aes = w0]
        ELSE IF w.err # ""
        THEN [s0 EXCEPT !.st = "failed", !.err = w.err, !.aes = w]
        ELSE [s0 EXCEPT !.st = "decrypted", !.out = w.buffer, !.aes = w]

\* ------------------------------------------------------------ blobs server
\* blobs_path '/s'; users 'u', 'v'; blob ids 'a', 'abcdefgh' and the id
\* '/s/v/a/a/a/a' (sent url-encoded, the request's postpath is unquoted)
BlobsPath == <<47, 115>>

Users == {<<117>>, <<118>>}

BlobIdShort == <<97>>

BlobIdLong == <<97, 98, 99, 100, 101, 102, 103, 104>>

BlobIdSlashed == <<47, 115, 47, 118, 47, 97, 47, 97, 47, 97, 47, 97>>

BlobIds == {BlobIdShort, BlobIdLong, BlobIdSlashed}

\* bodies of 1 byte and of 17 bytes
Contents == {<<120>>, Rep(121, 17)}

\* os.path.join(path, *parts)
RECURSIVE os_path_join(_, _)
os_path_join(path, parts) ==
    IF parts = <<>> THEN path
    ELSE LET b == Head(parts)
             joined == IF b # <<>> /\ b[1] = 47 THEN b
                       ELSE IF path = <<>> \/ path[Len(path)] = 47 THEN path \o b
                       ELSE path \o <<47>> \o b
         IN  os_path_join(joined, Tail(parts))

\* the components a path names, as the filesystem resolves it
RECURSIVE Components(_)
Components(path) ==
    IF path = <<>> THEN <<>>
    ELSE LET cut  == {i \in 1..Len(path) : path[i] = 47}
             stop == IF cut = {} THEN Len(path) + 1
                     ELSE CHOOSE i \in cut : \A j \in cut : i <= j
             name == SubSeq(path, 1, stop - 1)
             rest == Components(SubSeq(path, stop + 1, Len(path)))
         IN  IF name = <<>> \/ name = <<46>> THEN rest ELSE <<name>> \o rest

\* FilesystemBlobsBackend._get_path
get_path(user, blob_id) ==
    os_path_join(BlobsPath,
                 <<user, SliceTo(blob_id, 1), SliceTo(blob_id, 3),
                   SliceTo(blob_id, 6), blob_id>>)

IsPrefix(p, q) == Len(p) <= Len(q) /\ SubSeq(q, 1, Len(p)) = p

Parent(p) == SubSeq(p, 1, Len(p) - 1)

\* os.makedirs(d) under a bare except: the directories that exist afterwards
MakeDirs(ds, files, d) ==
    LET blocked == {k \in 1..Len(d) : SubSeq(d, 1, k) \in DOMAIN files}
        upto    == IF blocked = {} THEN Len(d)
                   ELSE (CHOOSE k \in blocked : \A j \in blocked : k <= j) - 1
    IN  ds \cup {SubSeq(d, 1, k) : k \in 1..upto}

\* du -c <start_path> | tail -n 1, in KB: 4 KB for a directory, 4 KB for each
\* block of 4096 bytes of a file
RECURSIVE FileBlocks(_, _)
FileBlocks(files, S) ==
    IF S = {} THEN 0
    ELSE LET f == CHOOSE x \in S : TRUE
         IN  ((Len(files[f]) + 4095) \div 4096) + FileBlocks(files, S \ {f})

DuKB(ds, files, start) ==
    LET under == {f \in DOMAIN files : IsPrefix(start, f)}
    IN  4 * Cardinality({d \in ds : IsPrefix(start, d)}) + 4 * FileBlocks(files, under)

\* FilesystemBlobsBackend._get_disk_usage
get_disk_usage(ds, files, start_path) ==
    IF Components(start_path) \notin ds THEN 0
    ELSE DuKB(ds, files, Components(start_path))

\* FilesystemBlobsBackend.get_total_storage
get_total_storage(ds, files, user) ==
    get_disk_usage(ds, files, os_path_join(BlobsPath, <<user>>))

\* FilesystemBlobsBackend.list_blobs: the file names os.walk finds
list_blobs(files, user) ==
    LET base_path == Components(os_path_join(BlobsPath, <<user>>))
    IN  {f[Len(f)] : f \in {g \in DOMAIN files : IsPrefix(base_path, g)}}

NoResponse ==
    [op |-> "none", user |-> <<>>, blob_id |-> <<>>, code |-> 0, body |-> <<>>,
     ids |-> {}]

Response(op, user, blob_id, code, body, ids) ==
    [op |-> op, user |-> user, blob_id |-> blob_id, code |-> code, body |-> body,
     ids |-> ids]

\* FilesystemBlobsBackend.read_blob: static.File(path).render_GET
read_blob(ds, files, user, blob_id) ==
    LET path == Components(get_path(user, blob_id))
    IN  IF path \in DOMAIN files
        THEN Response("READ", user, blob_id, 200, files[path], {})
        ELSE Response("READ", user, blob_id, IF path \in ds THEN 302 ELSE 404, <<>>, {})

\* FilesystemBlobsBackend.tag_header: open(path) and seek(-16, 2) must succeed
tag_header_ok(files, user, blob_id) ==
    LET path == Components(get_path(user, blob_id))
    IN  path \in DOMAIN files /\ Len(files[path]) >= TAG_LEN

\* BlobsResource.render_GET with a blob id
render_GET(ds, files, user, blob_id) ==
    IF ~tag_header_ok(files, user, blob_id)
    THEN Response("GET", user, blob_id, 500, <<>>, {})
    ELSE [read_blob(ds, files, user, blob_id) EXCEPT !.op = "GET"]

\* write_blob without its os.path.isfile check
write_blob_code_no_conflict(ds, files, user, blob_id) ==
    LET path  == Components(get_path(user, blob_id))
        made  == MakeDirs(ds, files, Parent(path))
    IN  IF get_total_storage(made, files, user) > Quota THEN 507
        ELSE IF Parent(path) \notin made \/ path \in made THEN 500
        ELSE 0

\* write_blob without its quota check
write_blob_code_no_quota(ds, files, user, blob_id) ==
    LET path  == Components(get_path(user, blob_id))
        made  == MakeDirs(ds, files, Parent(path))
    IN  IF path \in DOMAIN files THEN 409
        ELSE IF Parent(path) \notin made \/ path \in made THEN 500
        ELSE 0

\* what FilesystemBlobsBackend.write_blob answers: 409, 507, 500 (open fails), or
\* 0 when it goes on to store the blob
write_blob_code(ds, files, user, blob_id) ==
    LET path  == Components(get_path(user, blob_id))
        made  == MakeDirs(ds, files, Parent(path))
    IN  IF path \in DOMAIN files THEN 409
        ELSE IF get_total_storage(made, files, user) > Quota THEN 507
        ELSE IF Parent(path) \notin made \/ path \in made THEN 500
        ELSE 0

\* ------------------------------------------------------------ SoledadCrypto
\* '{"raw": "' and '"}'
RawHead == <<123, 34, 114, 97, 119, 34, 58, 32, 34>>

RawTail == <<34, 125>>

\* '{"raw": "EzcB'
EncryptedPrefix == RawHead \o <<69, 122, 99, 66>>

\* put_raw in SoledadCrypto.encrypt_doc
put_raw(raw) == RawHead \o raw \o RawTail

\* is_symmetrically_encrypted with a prefix check that reads one byte less
is_symmetrically_encrypted_short(content) ==
    content # <<>> /\ SliceTo(content, 12) = SliceTo(EncryptedPrefix, 12)

\* is_symmetrically_encrypted(content): whether what it returns is true (it
\* returns content itself when content is empty)
is_symmetrically_encrypted(content) ==
    content # <<>> /\ SliceTo(content, 13) = EncryptedPrefix

\* no document was encrypted and no content was examined
NoDoc == [st |-> "idle", json |-> <<>>, content |-> <<>>, encrypted |-> FALSE]

\* ------------------------------------------------------------ idle values
EncOff == [EncIdle(<<>>, [doc_id |-> <<>>, rev |-> <<>>], <<>>, TRUE) EXCEPT !.st = "off"]

DecOff == [DecIdle EXCEPT !.st = "off"]

SymOff == [SymIdle(<<>>, <<>>, 0) EXCEPT !.st = "off"]

NoLog == [accepted |-> {}, finished |-> {}, last |-> NoResponse]

ServerOff ==
    /\ fs = <<>>
    /\ dirs = {}
    /\ uploads = {}
    /\ log = NoLog

\* no pair of concurrent operations, no couch server, no migration
PairOff == ops = <<>>

MigrationOff == couch = <<>> /\ mig = [st |-> "off", run |-> 0]

CryptoOff ==
    /\ PairOff
    /\ MigrationOff
    /\ doc = NoDoc
    /\ enc = EncOff
    /\ blob = <<>>
    /\ forged = "none"
    /\ dec = DecOff

\* ------------------------------------------- encrypting and decrypting a blob
\* the arguments a BlobEncryptor is constructed with: every cleartext, every
\* doc_info, every secret, with and without armor
EncArgs ==
    LET full == Rep(65, 96)
        infoA == [doc_id |-> DocIdA, rev |-> RevA]
        one  == <<97>>
    IN  {EncIdle(full, infoA, c, TRUE) : c \in Cleartexts}
        \cup {EncIdle(full, di, one, TRUE) : di \in DocInfos}
        \cup {EncIdle(sec, infoA, one, TRUE) : sec \in Secrets}
        \cup {EncIdle(full, infoA, c, FALSE) : c \in Cleartexts}

Init ==
    /\ PairOff
    /\ MigrationOff
    /\ doc = NoDoc
    /\ enc \in EncArgs
    /\ blob = <<>>
    /\ forged = "none"
    /\ dec = DecIdle
    /\ sym = SymOff
    /\ ServerOff

\* BlobEncryptor(doc_info, content_fd, secret, armor)
EncInit ==
    /\ enc.st = "idle"
    /\ \E rnd \in IVs, now \in Timestamps : enc' = BlobEncryptor_new(enc, rnd, now)
    /\ UNCHANGED <<blob, forged, dec, sym, fs, dirs, uploads, log, doc, ops, couch, mig>>

\* BlobEncryptor.encrypt(): the producer starts
EncStart ==
    /\ enc.st = "init"
    /\ enc' = [enc EXCEPT !.st = "producing"]
    /\ UNCHANGED <<blob, forged, dec, sym, fs, dirs, uploads, log, doc, ops, couch, mig>>

\* an iteration of the write loop that hands its chunk to the consumer twice
EncWriteTwice ==
    /\ enc.st = "producing"
    /\ enc.fdpos < Len(enc.content)
    /\ LET chunk == SubSeq(enc.content, enc.fdpos + 1,
                           Min(Len(enc.content), enc.fdpos + ReadSize))
       IN  enc' = [enc EXCEPT !.fdpos = enc.fdpos + Len(chunk),
                              !.aes = AESWriter_write(AESWriter_write(enc.aes, chunk),
                                                      chunk)]
    /\ UNCHANGED <<blob, forged, dec, sym, fs, dirs, uploads, log, doc, ops, couch, mig>>

\* one iteration of the producer's write loop that read a chunk of cleartext
EncWrite ==
    /\ enc.st = "producing"
    /\ enc.fdpos < Len(enc.content)
    /\ LET chunk == SubSeq(enc.content, enc.fdpos + 1,
                           Min(Len(enc.content), enc.fdpos + ReadSize))
       IN  enc' = [enc EXCEPT !.fdpos = enc.fdpos + Len(chunk),
                              !.aes = AESWriter_write(enc.aes, chunk)]
    /\ UNCHANGED <<blob, forged, dec, sym, fs, dirs, uploads, log, doc, ops, couch, mig>>

\* the end of the stream, taken by a producer that was stopped as well
EncEndAfterStop ==
    /\ enc.st \in {"producing", "stopped"}
    /\ enc.fdpos >= Len(enc.content) \/ enc.st = "stopped"
    /\ ~enc.aes.cipher.finalized
    /\ LET aes == AESWriter_end(enc.aes)
           res == end_crypto_stream(enc.armor, aes)
       IN  /\ enc' = [enc EXCEPT !.st = "done", !.aes = aes, !.fdClosed = TRUE]
           /\ blob' = res
    /\ UNCHANGED <<forged, dec, sym, fs, dirs, uploads, log, doc, ops, couch, mig>>

\* the source is exhausted: the source is closed, the deferred fires and
\* _end_crypto_stream runs
EncEnd ==
    /\ enc.st = "producing"
    /\ enc.fdpos >= Len(enc.content)
    /\ LET aes == AESWriter_end(enc.aes)
           res == end_crypto_stream(enc.armor, aes)
       IN  /\ enc' = [enc EXCEPT !.st = "done", !.aes = aes, !.fdClosed = TRUE]
           /\ blob' = res
    /\ UNCHANGED <<forged, dec, sym, fs, dirs, uploads, log, doc, ops, couch, mig>>

\* FileBodyProducer.stopProducing on the producer of a BlobEncryptor whose
\* encrypt() is running: the source is closed and the task stopped, and the
\* deferred of startProducing is replaced by one that never fires
EncStop ==
    /\ enc.st = "producing"
    /\ enc' = [enc EXCEPT !.st = "stopped", !.fdClosed = TRUE]
    /\ UNCHANGED <<blob, forged, dec, sym, fs, dirs, uploads, log, doc, ops, couch, mig>>

\* a bit of the ciphertext or of the tag is flipped before the blob is decrypted
Flip ==
    /\ enc.st = "done" /\ enc.armor
    /\ dec.st = "idle" /\ forged = "none"
    /\ \E pos \in FlipPositions(blob), bit \in FlipBits :
           blob' = FlipPayloadBit(blob, pos, bit)
    /\ forged' = "flip"
    /\ UNCHANGED <<enc, dec, sym, fs, dirs, uploads, log, doc, ops, couch, mig>>

\* the blob reaches the decryptor with another preamble framing
ReframeBlob ==
    /\ enc.st = "done" /\ enc.armor
    /\ dec.st = "idle" /\ forged = "none"
    /\ \E kind \in ReframeKinds :
           /\ blob' = Reframe(blob, kind)
           /\ forged' = kind
    /\ UNCHANGED <<enc, dec, sym, fs, dirs, uploads, log, doc, ops, couch, mig>>

\* other bytes than a blob: nothing, whitespace only, and a first segment that
\* is not base64 ('A')
OtherInputs == {<<>>, <<32, 10>>, <<65>>}

\* the decryptor is given bytes that are not a blob
OtherInput ==
    /\ enc.st = "done" /\ enc.armor
    /\ dec.st = "idle" /\ forged = "none"
    /\ blob' \in OtherInputs
    /\ forged' = "other"
    /\ UNCHANGED <<enc, dec, sym, fs, dirs, uploads, log, doc, ops, couch, mig>>

\* the arguments a BlobDecryptor is constructed with
DecArgs ==
    {[doc_info |-> di, secret |-> enc.secret, armor |-> TRUE, resultGiven |-> rg] :
        di \in DocInfos, rg \in BOOLEAN}
    \cup {[doc_info |-> [doc_id |-> enc.doc_id, rev |-> enc.rev], secret |-> sec,
           armor |-> ar, resultGiven |-> FALSE] :
        sec \in Secrets, ar \in BOOLEAN}

\* BlobDecryptor(doc_info, ciphertext_fd, result, secret, armor)
DecInit ==
    /\ enc.st = "done"
    /\ dec.st = "idle"
    /\ \E a \in DecArgs, rnd \in IVs :
           dec' = BlobDecryptor_new(blob, a.doc_info, a.secret, a.armor,
                                    a.resultGiven, rnd)
    /\ blob' = <<>>
    /\ UNCHANGED <<enc, forged, sym, fs, dirs, uploads, log, doc, ops, couch, mig>>

\* BlobDecryptor.decrypt(): startProducing
DecStart ==
    /\ dec.st = "ready"
    /\ dec' = [dec EXCEPT !.st = "producing"]
    /\ UNCHANGED <<enc, blob, forged, sym, fs, dirs, uploads, log, doc, ops, couch, mig>>

\* CryptoStreamBodyProducer._writeloop: a chunk is read, decoded and written
DecWrite ==
    /\ dec.st = "producing"
    /\ dec.fdpos < Len(dec.fd)
    /\ dec' = writeloop_chunk(dec)
    /\ UNCHANGED <<enc, blob, forged, sym, fs, dirs, uploads, log, doc, ops, couch, mig>>

\* CryptoStreamBodyProducer._writeloop: the fd is exhausted; _end_stream runs
DecEnd ==
    /\ dec.st = "producing"
    /\ dec.fdpos >= Len(dec.fd)
    /\ dec' = writeloop_end(dec)
    /\ UNCHANGED <<enc, blob, forged, sym, fs, dirs, uploads, log, doc, ops, couch, mig>>

\* BlobDecryptor.close(): returns AESWriter.end()
DecClose ==
    /\ dec.st \in {"ready", "producing"}
    /\ LET aes == AESWriter_end(dec.aes)
       IN  dec' = [dec EXCEPT !.st = "closed", !.aes = aes, !.err = aes.err,
                              !.out = Some(aes.buffer)]
    /\ UNCHANGED <<enc, blob, forged, sym, fs, dirs, uploads, log, doc, ops, couch, mig>>

Next ==
    \/ EncInit
    \/ EncStart
    \/ EncWrite
    \/ EncEnd
    \/ EncStop
    \/ Flip
    \/ ReframeBlob
    \/ OtherInput
    \/ DecInit
    \/ DecStart
    \/ DecWrite
    \/ DecEnd
    \/ DecClose

Spec == Init /\ [][Next]_vars

\* ------------------------------------------------ encrypt_sym / decrypt_sym
\* keys of 0, 16, 31, 32 and 33 bytes, and a second key of 32 bytes
SymKeys == {<<>>, Rep(75, 16), Rep(75, 31), Rep(75, 32), Rep(75, 33), Rep(76, 32)}

SymData == {<<>>, <<97>>, BigClear}

SymMethods == {ENC_METHOD_aes_256_ctr, ENC_METHOD_aes_256_gcm}

SymInit ==
    /\ sym \in {SymIdle(d, k, m) : d \in SymData, k \in SymKeys, m \in SymMethods}
    /\ CryptoOff
    /\ ServerOff

\* AESWriter(key, iv, _buffer, tag, mode) constructed directly
SymWriter ==
    /\ sym.st = "idle"
    /\ \E iv \in {None} \cup {Some(v) : v \in IVs},
          tag \in {None, Some(<<>>), Some(Rep(9, TAG_LEN))},
          mode \in {"GCM", "CTR"}, rnd \in IVs :
           sym' = [sym EXCEPT !.st = "writer",
                              !.aes = AESWriter_init(sym.key, iv, <<>>, tag, mode, rnd)]
    /\ UNCHANGED <<enc, blob, forged, dec, fs, dirs, uploads, log, doc, ops, couch, mig>>

\* encrypt_sym(data, key, method)
SymEncrypt ==
    /\ sym.st = "idle"
    /\ \E rnd \in IVs : sym' = encrypt_sym(sym.data, sym.key, sym.method, rnd)
    /\ UNCHANGED <<enc, blob, forged, dec, fs, dirs, uploads, log, doc, ops, couch, mig>>

\* decrypt_sym(data, key, iv, method) on what encrypt_sym returned
SymDecrypt ==
    /\ sym.st = "encrypted"
    /\ \E key \in SymKeys, rnd \in IVs :
           sym' = [decrypt_sym(sym.out, key, sym.iv, sym.method, rnd)
                       EXCEPT !.orig = sym.orig]
    /\ UNCHANGED <<enc, blob, forged, dec, fs, dirs, uploads, log, doc, ops, couch, mig>>

\* AESWriter.write(data) on the writer constructed directly
SymWrite ==
    /\ sym.st \in {"writer", "written", "ended"}
    /\ sym.aes.err = ""
    /\ sym.aes.cipher.finalized \/ Len(sym.aes.calls) < MaxWrites
    /\ sym' = [sym EXCEPT !.st = "written", !.aes = AESWriter_write(sym.aes, sym.data)]
    /\ UNCHANGED <<enc, blob, forged, dec, fs, dirs, uploads, log, doc, ops, couch, mig>>

\* AESWriter.end() on the writer constructed directly
SymEnd ==
    /\ sym.st \in {"writer", "written", "ended"}
    /\ sym.aes.err = ""
    /\ sym' = [sym EXCEPT !.st = "ended", !.aes = AESWriter_end(sym.aes)]
    /\ UNCHANGED <<enc, blob, forged, dec, fs, dirs, uploads, log, doc, ops, couch, mig>>

\* what encrypt_sym returned with one bit of its first or last ciphertext
\* byte or of its first or last tag byte flipped, or cut to less than a tag
SymForged(out) ==
    {[out EXCEPT ![p] = Xor(out[p], 1)] :
        p \in {1, Len(out) - TAG_LEN, Len(out) - TAG_LEN + 1, Len(out)} \cap 1..Len(out)}
    \cup {SubSeq(out, 1, k) : k \in {0, Min(Len(out), TAG_LEN - 1)}}

\* decrypt_sym(data, key, iv, method) on modified data, with the key and the iv
\* of the encryption
SymDecryptForged ==
    /\ sym.st = "encrypted"
    /\ \E data \in SymForged(sym.out), rnd \in IVs :
           sym' = [decrypt_sym(data, sym.key, sym.iv, sym.method, rnd)
                       EXCEPT !.orig = sym.orig]
    /\ UNCHANGED <<enc, blob, forged, dec, fs, dirs, uploads, log, doc, ops, couch, mig>>

SymNext ==
    \/ SymWriter
    \/ SymDecryptForged
    \/ SymWrite
    \/ SymEnd
    \/ SymEncrypt
    \/ SymDecrypt

SymSpec == SymInit /\ [][SymNext]_vars

\* ------------------------------------------------------------ blobs server
\* fs maps the path of a file to the bytes a reader finds in it, dirs are the
\* directories, uploads the request bodies being moved into their files, and
\* log keeps the accepted and the finished uploads and the response that is
\* being delivered
PutArgs ==
    {[user |-> u, blob_id |-> BlobIdShort, content |-> c] :
        u \in Users, c \in Contents}
    \cup {[user |-> u, blob_id |-> b, content |-> <<120>>] :
        u \in Users, b \in {BlobIdLong, BlobIdSlashed}}

\* FilesystemBlobsBackend.__init__: blobs_path exists
ServerInit ==
    /\ fs = <<>>
    /\ dirs = MakeDirs({}, <<>>, Components(BlobsPath))
    /\ uploads = {}
    /\ log = NoLog
    /\ CryptoOff
    /\ sym = SymOff

\* BlobsResource.render_PUT / FilesystemBlobsBackend.write_blob
WriteBlob ==
    /\ log.last = NoResponse
    /\ Cardinality(log.accepted) < MaxPuts
    /\ \E a \in PutArgs :
           LET path == Components(get_path(a.user, a.blob_id))
               code == write_blob_code(dirs, fs, a.user, a.blob_id)
           IN  /\ dirs' = MakeDirs(dirs, fs, Parent(path))
               /\ IF code = 0
                  THEN /\ fs' = [f \in DOMAIN fs \cup {path} |->
                                    IF f = path THEN <<>> ELSE fs[f]]
                       /\ uploads' = uploads \cup
                              {[user |-> a.user, blob_id |-> a.blob_id, path |-> path,
                                content |-> a.content, sent |-> 0]}
                       /\ log' = [log EXCEPT !.accepted = @ \cup {a}]
                  ELSE /\ UNCHANGED <<fs, uploads>>
                       /\ log' = [log EXCEPT !.last =
                              Response("PUT", a.user, a.blob_id, code, <<>>, {})]
    /\ UNCHANGED <<enc, blob, forged, dec, sym, doc, ops, couch, mig>>

\* FileBodyProducer: one chunk of the body is written to the file; the bytes a
\* reader finds are those written before, or all of them when the file object
\* flushes
TransferStep ==
    /\ log.last = NoResponse
    /\ \E u \in uploads :
           /\ u.sent < Len(u.content)
           /\ LET n == Min(Len(u.content), u.sent + UploadChunk)
              IN  /\ \E seen \in {Len(fs[u.path]), n} :
                         fs' = [fs EXCEPT ![u.path] = SubSeq(u.content, 1, seen)]
                  /\ uploads' = (uploads \ {u}) \cup {[u EXCEPT !.sent = n]}
    /\ UNCHANGED <<enc, blob, forged, dec, sym, dirs, log, doc, ops, couch, mig>>

\* the end of an upload that leaves the file as a reader finds it
TransferFinishUnflushed ==
    /\ log.last = NoResponse
    /\ \E u \in uploads :
           /\ u.sent = Len(u.content)
           /\ uploads' = uploads \ {u}
           /\ log' = [log EXCEPT
                  !.finished = @ \cup {[user |-> u.user, blob_id |-> u.blob_id,
                                        content |-> u.content]},
                  !.last = Response("PUT", u.user, u.blob_id, 200, <<>>, {})]
    /\ UNCHANGED <<enc, blob, forged, dec, sym, dirs, fs, doc, ops, couch, mig>>

\* FileBodyProducer: the body is exhausted, the file is released and
\* request.finish() runs
TransferFinish ==
    /\ log.last = NoResponse
    /\ \E u \in uploads :
           /\ u.sent = Len(u.content)
           /\ fs' = [fs EXCEPT ![u.path] = u.content]
           /\ uploads' = uploads \ {u}
           /\ log' = [log EXCEPT
                  !.finished = @ \cup {[user |-> u.user, blob_id |-> u.blob_id,
                                        content |-> u.content]},
                  !.last = Response("PUT", u.user, u.blob_id, 200, <<>>, {})]
    /\ UNCHANGED <<enc, blob, forged, dec, sym, dirs, doc, ops, couch, mig>>

\* FilesystemBlobsBackend.read_blob
ReadBlob ==
    /\ log.last = NoResponse
    /\ \E user \in Users, blob_id \in BlobIds :
           log' = [log EXCEPT !.last = read_blob(dirs, fs, user, blob_id)]
    /\ UNCHANGED <<enc, blob, forged, dec, sym, fs, dirs, uploads, doc, ops, couch, mig>>

\* BlobsResource.render_GET with a blob id
GetBlob ==
    /\ log.last = NoResponse
    /\ \E user \in Users, blob_id \in BlobIds :
           log' = [log EXCEPT !.last = render_GET(dirs, fs, user, blob_id)]
    /\ UNCHANGED <<enc, blob, forged, dec, sym, fs, dirs, uploads, doc, ops, couch, mig>>

\* BlobsResource.render_GET without a blob id: FilesystemBlobsBackend.list_blobs
ListBlobs ==
    /\ log.last = NoResponse
    /\ \E user \in Users :
           log' = [log EXCEPT !.last =
                      Response("LIST", user, <<>>, 200, <<>>, list_blobs(fs, user))]
    /\ UNCHANGED <<enc, blob, forged, dec, sym, fs, dirs, uploads, doc, ops, couch, mig>>

\* the response was delivered to the client
RequestDone ==
    /\ log.last # NoResponse
    /\ log' = [log EXCEPT !.last = NoResponse]
    /\ UNCHANGED <<enc, blob, forged, dec, sym, fs, dirs, uploads, doc, ops, couch, mig>>

ServerNext ==
    \/ WriteBlob
    \/ TransferStep
    \/ TransferFinish
    \/ ReadBlob
    \/ GetBlob
    \/ ListBlobs
    \/ RequestDone

ServerSpec == ServerInit /\ [][ServerNext]_vars

\* ------------------------------------------------------------ SoledadCrypto
\* the documents encrypt_doc is called for: their JSON, doc_id, rev and the
\* secret of the SoledadCrypto
DocJsons == {<<123, 125>>, <<123, 34, 97, 34, 58, 32, 49, 125>>}

DocEncArgs ==
    {EncIdle(sec, di, c, TRUE) :
        sec \in {<<>>, Rep(65, 96)},
        di \in {[doc_id |-> DocIdA, rev |-> RevA], [doc_id |-> DocIdB, rev |-> RevB]},
        c \in DocJsons \cup Cleartexts}

\* contents is_symmetrically_encrypted is asked about, besides the documents
\* encrypt_doc produced: '', the prefix alone, the prefix cut or altered, a
\* plaintext document, a document whose raw value has another scheme byte
DocContents ==
    {<<>>, EncryptedPrefix, SliceTo(EncryptedPrefix, 12),
     SliceTo(EncryptedPrefix, 12) \o <<67>>,
     <<32>> \o EncryptedPrefix,
     put_raw(<<>>),
     <<123, 34, 97, 34, 58, 32, 49, 125>>}

DocInit ==
    /\ PairOff
    /\ MigrationOff
    /\ enc \in DocEncArgs
    /\ doc = NoDoc
    /\ blob = <<>>
    /\ forged = "none"
    /\ dec = DecOff
    /\ sym = SymOff
    /\ ServerOff

\* SoledadCrypto.encrypt_doc: the deferred of encrypt() fires and put_raw
\* wraps the blob
PutRaw ==
    /\ enc.st = "producing"
    /\ enc.fdpos >= Len(enc.content)
    /\ doc.json = <<>>
    /\ LET aes == AESWriter_end(enc.aes)
       IN  /\ enc' = [enc EXCEPT !.st = "done", !.aes = aes, !.fdClosed = TRUE]
           /\ doc' = [doc EXCEPT !.json = put_raw(end_crypto_stream(enc.armor, aes))]
    /\ UNCHANGED <<blob, forged, dec, sym, fs, dirs, uploads, log, ops, couch, mig>>

\* is_symmetrically_encrypted(content)
IsEncrypted ==
    /\ \E content \in DocContents \cup {doc.json} :
           doc' = [doc EXCEPT !.st = "examined", !.content = content,
                              !.encrypted = is_symmetrically_encrypted(content)]
    /\ UNCHANGED <<enc, blob, forged, dec, sym, fs, dirs, uploads, log, ops, couch, mig>>

DocNext ==
    \/ EncInit
    \/ EncStart
    \/ EncWrite
    \/ PutRaw
    \/ IsEncrypted

DocSpec == DocInit /\ [][DocNext]_vars

\* ------------------------------------------ two operations running together
\* ops.bufs is the heap of BytesIO objects the writers allocated; ops.run holds
\* the two operations. An operation is a BlobEncryptor or a BlobDecryptor
\* record r whose writer's buffer is the heap object buf (0 before the writer
\* exists); rnd is what os.urandom returns to it and first its record before
\* the constructor ran.

\* a constructor that takes the first BytesIO of the heap instead of a new one
NewBufferShared(bufs) == 1

\* AESWriter.__init__: self.buffer = _buffer or BytesIO(), a new object
NewBuffer(bufs) == Len(bufs) + 1

\* the steps of BlobEncryptor(...).encrypt() on the record of the encryptor
enc_step(e, rnd, now) ==
    IF e.st = "idle" THEN BlobEncryptor_new(e, rnd, now)
    ELSE IF e.st = "init" THEN [e EXCEPT !.st = "producing"]
    ELSE IF e.fdpos < Len(e.content)
    THEN [e EXCEPT !.fdpos = Min(Len(e.content), e.fdpos + ReadSize),
                   !.aes = AESWriter_write(e.aes,
                               SubSeq(e.content, e.fdpos + 1,
                                      Min(Len(e.content), e.fdpos + ReadSize)))]
    ELSE [e EXCEPT !.st = "done", !.aes = AESWriter_end(e.aes), !.fdClosed = TRUE]

\* the steps of BlobDecryptor(...).decrypt() on the record of the decryptor
dec_step(d, rnd) ==
    IF d.st = "idle"
    THEN BlobDecryptor_new(d.fd, [doc_id |-> d.doc_id, rev |-> d.rev], d.secret,
                           d.armor, d.resultGiven, rnd)
    ELSE IF d.st = "ready" THEN [d EXCEPT !.st = "producing"]
    ELSE IF d.fdpos < Len(d.fd) THEN writeloop_chunk(d)
    ELSE writeloop_end(d)

OpDone(o) == o.r.st \in {"done", "failed"}

\* the record of an operation with the contents of its buffer object
OpLoaded(bufs, o) ==
    IF o.buf = 0 THEN o.r ELSE [o.r EXCEPT !.aes.buffer = bufs[o.buf]]

\* the heap and the operation after a step that left the record r: the writer
\* made by the step gets its buffer object, and the bytes the step left in the
\* buffer are those of the object
OpStored(bufs, o, r, ref) ==
    IF ~r.aes.cipher.made THEN [bufs |-> bufs, o |-> [o EXCEPT !.r = r]]
    ELSE IF o.buf # 0
    THEN [bufs |-> [bufs EXCEPT ![o.buf] = r.aes.buffer],
          o    |-> [o EXCEPT !.r = [r EXCEPT !.aes.buffer = <<>>]]]
    ELSE IF ref > Len(bufs)
    THEN [bufs |-> Append(bufs, r.aes.buffer),
          o    |-> [o EXCEPT !.r = [r EXCEPT !.aes.buffer = <<>>], !.buf = ref]]
    ELSE [bufs |-> bufs,
          o    |-> [o EXCEPT !.r = [r EXCEPT !.aes.buffer = <<>>], !.buf = ref]]

\* one step of an operation on the heap
OpStep(bufs, o) ==
    OpStored(bufs, o,
             IF o.kind = "enc"
             THEN enc_step(OpLoaded(bufs, o), o.rnd, 1500000000)
             ELSE dec_step(OpLoaded(bufs, o), o.rnd),
             NewBuffer(bufs))

\* what a finished operation delivers: the blob of encrypt(), the result
\* buffer of decrypt()
OpResult(bufs, o) ==
    IF o.r.st # "done" THEN <<>>
    ELSE IF o.kind = "enc"
    THEN end_crypto_stream(o.r.armor, OpLoaded(bufs, o).aes)
    ELSE bufs[o.buf]

\* the heap and the operation after the operation ran to its end from h
RECURSIVE RunAlone(_)
RunAlone(h) == IF OpDone(h.o) THEN h ELSE RunAlone(OpStep(h.bufs, h.o))

AloneResult(first) ==
    OpResult(RunAlone([bufs |-> <<>>, o |-> first]).bufs,
             RunAlone([bufs |-> <<>>, o |-> first]).o)

NewOp(kind, r, rnd) == [kind |-> kind, r |-> r, buf |-> 0, rnd |-> rnd]

\* an encryption of a document, and the decryption of its blob
EncOp(doc_id, rev, content, rnd) ==
    NewOp("enc", EncIdle(Rep(65, 96), [doc_id |-> doc_id, rev |-> rev], content, TRUE),
          rnd)

DecOp(doc_id, rev, content, rnd) ==
    NewOp("dec",
          [DecIdle EXCEPT !.secret = Rep(65, 96), !.doc_id = doc_id, !.rev = rev,
                          !.fd = AloneResult(EncOp(doc_id, rev, content, rnd))],
          rnd)

\* the pairs of operations on two documents
PairArgs ==
    {<<a, b>> :
        a \in {EncOp(DocIdA, RevA, c, Rep(1, 16)) : c \in {<<97>>, BigClear}}
              \cup {DecOp(DocIdA, RevA, BigClear, Rep(1, 16))},
        b \in {EncOp(DocIdB, RevB, c, rnd) : c \in {<<98>>, BigClear}, rnd \in IVs}
              \cup {DecOp(DocIdB, RevB, <<98>>, Rep(1, 16))}}

PairInit ==
    /\ \E p \in PairArgs : ops = [bufs |-> <<>>, run |-> p, first |-> p]
    /\ MigrationOff
    /\ doc = NoDoc
    /\ enc = EncOff
    /\ blob = <<>>
    /\ forged = "none"
    /\ dec = DecOff
    /\ sym = SymOff
    /\ ServerOff

\* the reactor runs the next step of one of the two operations
PairStep ==
    /\ \E i \in 1..2 :
           /\ ~OpDone(ops.run[i])
           /\ ops' = [ops EXCEPT !.bufs = OpStep(ops.bufs, ops.run[i]).bufs,
                                 !.run[i] = OpStep(ops.bufs, ops.run[i]).o]
    /\ UNCHANGED <<enc, blob, forged, dec, sym, fs, dirs, uploads, log, doc, couch, mig>>

PairNext == PairStep

PairSpec == PairInit /\ [][PairNext]_vars

\* ------------------------------------------------------ couch schema migration
\* couch maps the name of a database to its documents, a function from document
\* ids to documents. Names and ids are pairs <<prefix, rest>>: 'user-' + uuid,
\* 'u1db_sync_' + replica uid, 'gen-' + generation, '_design/' + name.
ConfigId == <<"u1db_config", 0>>

NewConfigId == <<"CONFIG_DOC_ID", 0>>

SyncId(r) == <<"u1db_sync_", r>>

NewSyncId(r) == <<"SYNC_DOC_ID_PREFIX", r>>

GenId(gen) == <<"gen-", gen>>

DesignDocs == <<"docs", "syncs", "transactions">>

DesignId(ddoc) == <<"_design/", ddoc>>

UserDocId(k) == <<"doc-", k>>

RECURSIVE Sorted(_)
Sorted(S) ==
    IF S = {} THEN <<>>
    ELSE <<CHOOSE m \in S : \A x \in S : m <= x>>
             \o Sorted(S \ {CHOOSE m \in S : \A x \in S : m <= x})

\* db.save(doc) of a document without _rev: the database afterwards, or a
\* conflict when the id is taken
db_save(db, id, d) ==
    IF id \in DOMAIN db THEN [err |-> "ResourceConflict", db |-> db]
    ELSE [err |-> "",
          db  |-> [x \in DOMAIN db \cup {id} |-> IF x = id THEN d ELSE db[x]]]

\* db.delete(doc)
db_delete(db, id) == [x \in DOMAIN db \ {id} |-> db[x]]

\* _is_migrateable(db)
is_migrateable(db) == ConfigId \in DOMAIN db

\* _get_transaction_log(db): the rows of the view 'log' of the design document
\* 'transactions', numbered from 1
get_transaction_log(db) ==
    IF DesignId("transactions") \notin DOMAIN db
    THEN [err |-> "ResourceNotFound", rows |-> <<>>]
    ELSE [err |-> "",
          rows |-> [gen \in 1..Cardinality({k \in 1..(MaxDocs + 1) : UserDocId(k) \in DOMAIN db})
                     |-> [gen      |-> gen,
                          doc_id   |-> UserDocId(Sorted({k \in 1..(MaxDocs + 1) :
                                                           UserDocId(k) \in DOMAIN db})[gen]),
                          trans_id |-> db[UserDocId(Sorted({k \in 1..(MaxDocs + 1) :
                                              UserDocId(k) \in DOMAIN db})[gen])].trans_id]]]

\* _get_user_dbs(server): the names that start with 'user-', in the order of
\* the server
get_user_dbs(server) ==
    [i \in 1..Cardinality({n \in DOMAIN server : n[1] = "user-"})
        |-> <<"user-", Sorted({n[2] : n \in {m \in DOMAIN server : m[1] = "user-"}})[i]>>]

\* the rows of db.view('_all_docs', startkey='u1db_sync', endkey='u1db_synd'):
\* the replica uids of the old sync documents
sync_rows(db) == Sorted({r \in 1..(MaxReplicas + 1) : SyncId(r) \in DOMAIN db})

\* a user database in the old schema with n documents and the sync state of
\* m replicas
OldDb(uid, n, m) ==
    [x \in {ConfigId} \cup {DesignId(DesignDocs[i]) : i \in 1..3}
            \cup {UserDocId(k) : k \in 1..n} \cup {SyncId(r) : r \in 1..m}
       |-> CASE x = ConfigId       -> [replica_uid |-> uid]
             [] x[1] = "_design/"  -> [views |-> x[2]]
             [] x[1] = "doc-"      -> [trans_id |-> 100 + x[2]]
             [] OTHER              -> [generation |-> 10 + x[2],
                                       transaction_id |-> 200 + x[2]]]

\* the servers migrate is run on: user database 1 in the old schema, user
\* database 2 in the old schema or absent, and a database that is not a
\* user's and holds a 'u1db_config' document
CouchServers ==
    {[name \in {<<"user-", 1>>, <<"shared", 0>>} \cup more
        |-> IF name = <<"user-", 1>> THEN OldDb(71, n, m)
            ELSE IF name = <<"user-", 2>> THEN OldDb(72, 1, 1)
            ELSE [x \in {ConfigId} |-> [replica_uid |-> 70]]] :
        n \in 0..MaxDocs, m \in 0..MaxReplicas, more \in {{}, {<<"user-", 2>>}}}

NoDb == <<>>

MigIdle(do_migrate, server) ==
    [st |-> "idle", run |-> 0, do_migrate |-> do_migrate, queue |-> <<>>,
     db |-> NoDb, step |-> "", rows |-> <<>>, i |-> 0, err |-> "",
     first |-> server, left |-> server, prev |-> [st |-> "", db |-> NoDb]]

MigFailed(m, err) == [m EXCEPT !.st = "failed", !.err = err]

MigrationInit ==
    /\ couch \in CouchServers
    /\ \E do_migrate \in BOOLEAN : mig = MigIdle(do_migrate, couch)
    /\ PairOff
    /\ doc = NoDoc
    /\ enc = EncOff
    /\ blob = <<>>
    /\ forged = "none"
    /\ dec = DecOff
    /\ sym = SymOff
    /\ ServerOff

\* migrate(args, target_version) is called, for the first time or again after
\* a run has ended
MigrateStart ==
    /\ mig.st \in {"idle", "done", "stopped", "failed"}
    /\ mig.run < MaxRuns
    /\ mig' = [mig EXCEPT !.st = "running", !.run = @ + 1, !.left = couch,
                          !.prev = [st |-> mig.st, db |-> mig.db],
                          !.queue = get_user_dbs(couch), !.db = NoDb, !.step = "",
                          !.rows = <<>>, !.i = 0, !.err = ""]
    /\ UNCHANGED <<enc, blob, forged, dec, sym, fs, dirs, uploads, log, doc, ops, couch>>

\* the loop of migrate: the next user database is skipped or its migration
\* starts with reading the transaction log
Migrate ==
    /\ mig.st = "running" /\ mig.db = NoDb
    /\ IF mig.queue = <<>>
       THEN mig' = [mig EXCEPT !.st = "done"]
       ELSE IF ~is_migrateable(couch[Head(mig.queue)])
       THEN mig' = [mig EXCEPT !.queue = Tail(@)]
       ELSE IF get_transaction_log(couch[Head(mig.queue)]).err # ""
       THEN mig' = MigFailed(mig, get_transaction_log(couch[Head(mig.queue)]).err)
       ELSE mig' = [mig EXCEPT !.db = Head(mig.queue), !.step = "log", !.i = 1,
                       !.rows = get_transaction_log(couch[Head(mig.queue)]).rows]
    /\ UNCHANGED <<enc, blob, forged, dec, sym, fs, dirs, uploads, log, doc, ops, couch>>

\* _migrate_transaction_log that saves the documents in a dry run too
migrate_transaction_log_always(db, m) ==
    IF m.i > Len(m.rows)
    THEN [db |-> db, m |-> [m EXCEPT !.step = "config", !.rows = <<>>, !.i = 0]]
    ELSE IF db_save(db, GenId(m.rows[m.i].gen), m.rows[m.i]).err # ""
    THEN [db |-> db, m |-> MigFailed(m, "ResourceConflict")]
    ELSE [db |-> db_save(db, GenId(m.rows[m.i].gen), m.rows[m.i]).db,
          m  |-> [m EXCEPT !.i = @ + 1]]

\* _migrate_transaction_log: one iteration of its loop
migrate_transaction_log(db, m) ==
    IF m.i > Len(m.rows)
    THEN [db |-> db, m |-> [m EXCEPT !.step = "config", !.rows = <<>>, !.i = 0]]
    ELSE IF ~m.do_migrate
    THEN [db |-> db, m |-> [m EXCEPT !.i = @ + 1]]
    ELSE IF db_save(db, GenId(m.rows[m.i].gen), m.rows[m.i]).err # ""
    THEN [db |-> db, m |-> MigFailed(m, "ResourceConflict")]
    ELSE [db |-> db_save(db, GenId(m.rows[m.i].gen), m.rows[m.i]).db,
          m  |-> [m EXCEPT !.i = @ + 1]]

\* _migrate_config_doc that deletes the old document before it saves the new
migrate_config_doc_delete_first(db, m) ==
    IF m.step = "config"
    THEN IF ~m.do_migrate
         THEN [db |-> db, m |-> [m EXCEPT !.step = "sync", !.rows = sync_rows(db), !.i = 1]]
         ELSE [db |-> db_delete(db, ConfigId),
               m  |-> [m EXCEPT !.step = "config_delete",
                                !.rows = <<db[ConfigId].replica_uid>>]]
    ELSE [db |-> db_save(db, NewConfigId,
                         [replica_uid |-> m.rows[1],
                          schema_version |-> "SCHEMA_VERSION"]).db,
          m  |-> [m EXCEPT !.step = "sync", !.rows = sync_rows(db), !.i = 1]]

\* _migrate_config_doc: db.save(new_doc), then db.delete(old_doc)
migrate_config_doc(db, m) ==
    IF m.step = "config"
    THEN IF ~m.do_migrate
         THEN [db |-> db, m |-> [m EXCEPT !.step = "sync", !.rows = sync_rows(db), !.i = 1]]
         ELSE IF db_save(db, NewConfigId, [replica_uid |-> db[ConfigId].replica_uid,
                                           schema_version |-> "SCHEMA_VERSION"]).err # ""
         THEN [db |-> db, m |-> MigFailed(m, "ResourceConflict")]
         ELSE [db |-> db_save(db, NewConfigId,
                              [replica_uid |-> db[ConfigId].replica_uid,
                               schema_version |-> "SCHEMA_VERSION"]).db,
               m  |-> [m EXCEPT !.step = "config_delete"]]
    ELSE [db |-> db_delete(db, ConfigId),
          m  |-> [m EXCEPT !.step = "sync", !.rows = sync_rows(db), !.i = 1]]

\* the new sync document of the old sync document of replica r
new_sync_doc(db, r) ==
    [gen |-> db[SyncId(r)].generation, trans_id |-> db[SyncId(r)].transaction_id,
     replica_uid |-> r]

\* _migrate_sync_docs: one request of its loop, db.save(new_doc) or
\* db.delete(old_doc)
migrate_sync_docs(db, m) ==
    IF m.step = "sync"
    THEN IF m.i > Len(m.rows)
         THEN [db |-> db, m |-> [m EXCEPT !.step = "design", !.rows = <<>>, !.i = 1]]
         ELSE IF ~m.do_migrate
         THEN [db |-> db, m |-> [m EXCEPT !.i = @ + 1]]
         ELSE IF db_save(db, NewSyncId(m.rows[m.i]), new_sync_doc(db, m.rows[m.i])).err # ""
         THEN [db |-> db, m |-> MigFailed(m, "ResourceConflict")]
         ELSE [db |-> db_save(db, NewSyncId(m.rows[m.i]),
                              new_sync_doc(db, m.rows[m.i])).db,
               m  |-> [m EXCEPT !.step = "sync_delete"]]
    ELSE [db |-> db_delete(db, SyncId(m.rows[m.i])),
          m  |-> [m EXCEPT !.step = "sync", !.i = @ + 1]]

\* _delete_design_docs: one iteration of its loop; after the last one
\* _migrate_user_db returns
delete_design_docs(db, m) ==
    IF m.i > Len(DesignDocs)
    THEN [db |-> db, m |-> [m EXCEPT !.db = NoDb, !.queue = Tail(@), !.step = "",
                                     !.i = 0]]
    ELSE IF ~m.do_migrate
    THEN [db |-> db, m |-> [m EXCEPT !.i = @ + 1]]
    ELSE IF DesignId(DesignDocs[m.i]) \notin DOMAIN db
    THEN [db |-> db, m |-> MigFailed(m, "TypeError")]
    ELSE [db |-> db_delete(db, DesignId(DesignDocs[m.i])),
          m  |-> [m EXCEPT !.i = @ + 1]]

\* a step s of _migrate_user_db(db, do_migrate) on the database being
\* migrated
MigrateUserDb(s) ==
    /\ mig' = s.m
    /\ couch' = [couch EXCEPT ![mig.db] = s.db]
    /\ UNCHANGED <<enc, blob, forged, dec, sym, fs, dirs, uploads, log, doc, ops>>

MigrateTransactionLog ==
    /\ mig.st = "running" /\ mig.db # NoDb /\ mig.step = "log"
    /\ MigrateUserDb(migrate_transaction_log(couch[mig.db], mig))

MigrateConfigDoc ==
    /\ mig.st = "running" /\ mig.db # NoDb /\ mig.step \in {"config", "config_delete"}
    /\ MigrateUserDb(migrate_config_doc(couch[mig.db], mig))

MigrateSyncDocs ==
    /\ mig.st = "running" /\ mig.db # NoDb /\ mig.step \in {"sync", "sync_delete"}
    /\ MigrateUserDb(migrate_sync_docs(couch[mig.db], mig))

DeleteDesignDocs ==
    /\ mig.st = "running" /\ mig.db # NoDb /\ mig.step = "design"
    /\ MigrateUserDb(delete_design_docs(couch[mig.db], mig))

\* the script stops before its next request (the process is killed, the
\* server is unreachable)
MigrateStop ==
    /\ mig.st = "running"
    /\ mig' = [mig EXCEPT !.st = "stopped"]
    /\ UNCHANGED <<enc, blob, forged, dec, sym, fs, dirs, uploads, log, doc, ops, couch>>

MigrationNext ==
    \/ MigrateStart
    \/ Migrate
    \/ MigrateTransactionLog
    \/ MigrateConfigDoc
    \/ MigrateSyncDocs
    \/ DeleteDesignDocs
    \/ MigrateStop

MigrationSpec == MigrationInit /\ [][MigrationNext]_vars

\* ------------------------------- a source written to before encrypt() runs
\* the data a caller writes to the source of a BlobEncryptor
SourceData == {<<120>>, <<120, 121>>}

\* how the source is written to: "at" is content_fd.write(data) at the position
\* the constructor left, "append" is content_fd.seek(0, os.SEEK_END) followed by
\* content_fd.write(data), "other" is a write at the end of the file through
\* another descriptor of it, which leaves the position of content_fd alone
SourceModes == {"at", "append", "other"}

\* the content and the position of the source after the write
source_write(content, pos, data, mode) ==
    IF mode = "at"
    THEN [content |-> SubSeq(content, 1, pos) \o data
                      \o SubSeq(content, pos + Len(data) + 1, Len(content)),
          pos |-> pos + Len(data)]
    ELSE IF mode = "append"
    THEN [content |-> content \o data, pos |-> Len(content) + Len(data)]
    ELSE [content |-> content \o data, pos |-> pos]

\* a BlobEncryptor is about to be constructed on a source at any position
SourceInit ==
    /\ PairOff
    /\ MigrationOff
    /\ doc = NoDoc
    /\ \E e \in EncArgs : \E p \in 0..Len(e.content) : enc = [e EXCEPT !.fdpos = p]
    /\ blob = <<>>
    /\ forged = "none"
    /\ dec = DecOff
    /\ sym = SymOff
    /\ ServerOff

\* the source is written to once between BlobEncryptor(...) and encrypt()
SourceWrite ==
    /\ enc.st = "init"
    /\ enc.fdpos = 0 /\ Len(enc.content) = enc.content_size
    /\ \E data \in SourceData, mode \in SourceModes :
           LET w == source_write(enc.content, enc.fdpos, data, mode)
           IN  enc' = [enc EXCEPT !.content = w.content, !.fdpos = w.pos]
    /\ UNCHANGED <<blob, forged, dec, sym, fs, dirs, uploads, log, doc, ops, couch, mig>>

SourceNext ==
    \/ EncInit
    \/ SourceWrite
    \/ EncStart
    \/ EncWrite
    \/ EncEnd
    \/ EncStop

SourceSpec == SourceInit /\ [][SourceNext]_vars

\* ------------------------------------------------------------------ claims
\* the decryptor was constructed for the doc_info and the secret the blob was
\* encrypted with, on the armored blob as the encryptor delivered it
SameArgs ==
    /\ enc.st = "done" /\ enc.armor
    /\ dec.st # "idle" /\ dec.armor
    /\ dec.doc_id = enc.doc_id /\ dec.rev = enc.rev /\ dec.secret = enc.secret

\* the doc_id and the rev of the encryptor fit the preamble's string fields
ValidIds == Len(enc.doc_id) < PSTR_LEN /\ Len(enc.rev) < PSTR_LEN

\* C1: round trip. A BlobDecryptor given the armored blob of a BlobEncryptor,
\* with the same doc_info and secret (doc_id and rev fitting their preamble
\* fields), does not fail, declares the cleartext length as its size, and
\* decrypt() delivers exactly the cleartext.
C1_RoundTrip ==
    (SameArgs /\ ValidIds /\ forged = "none")
        => /\ dec.st # "failed"
           /\ dec.size = Some(Len(enc.content))
           /\ dec.st = "done" => dec.out = Some(enc.content)

\* C1 witness: 'rosa de foc' went through encrypt() and decrypt()
C1_Witness ==
    /\ SameArgs /\ ValidIds /\ forged = "none"
    /\ enc.content = BigClear
    /\ dec.st = "done" /\ dec.out = Some(BigClear) /\ dec.size = Some(Len(BigClear))

\* C2: tamper detection. For a blob with one bit of its ciphertext or tag
\* flipped, decrypt() never delivers a buffer, and a failure is an InvalidBlob.
C2_TamperDetected ==
    (SameArgs /\ ValidIds /\ forged = "flip")
        => /\ dec.st # "done"
           /\ dec.st = "failed" => dec.err = "InvalidBlob"

\* the cleartext bytes the caller of a BlobDecryptor can read: the buffer that
\* decrypt() or close() returned, and the result buffer the caller supplied
CallerCleartext ==
    (IF dec.out # None THEN dec.out[1] ELSE <<>>)
        \o (IF dec.resultGiven THEN dec.aes.buffer ELSE <<>>)

\* C3: no cleartext reaches the caller of a BlobDecryptor before the GCM tag
\* was verified.
C3_NoUnverifiedCleartext ==
    (dec.st \notin {"off", "idle"} /\ CallerCleartext # <<>>)
        => dec.aes.cipher.verified

BlobPreamble == urlsafe_b64decode(SplitParts(blob).first).val

\* C5: preamble length dispatch. In the step that constructs a BlobDecryptor
\* (with a secret, armored) on a blob whose preamble decodes, a preamble that
\* has neither the legacy nor the current struct size is rejected with
\* InvalidBlob, and an accepted one has the legacy size with size None or the
\* current size with the size taken from its last field.
C5_PreambleDispatch ==
    [][(/\ dec.st = "idle" /\ dec'.st # "idle"
        /\ dec'.secret # <<>> /\ dec'.armor
        /\ ~SplitParts(blob).none
        /\ urlsafe_b64decode(SplitParts(blob).first).err = "")
          => /\ Len(BlobPreamble) \notin {LEGACY_PACMAN_size, PACMAN_size}
                    => /\ dec'.st = "failed" /\ dec'.err = "InvalidBlob"
                       /\ dec'.reason = "Unexpected preamble size"
             /\ dec'.st = "ready"
                    => \/ /\ Len(BlobPreamble) = LEGACY_PACMAN_size
                          /\ dec'.size = None
                       \/ /\ Len(BlobPreamble) = PACMAN_size
                          /\ dec'.size = Some(UnpackQ(SubSeq(BlobPreamble,
                                 PACMAN_size - 7, PACMAN_size)))]_vars

\* C5 witness: a blob re-framed with the legacy preamble was accepted, its
\* size unknown
C5_Witness ==
    /\ forged = "legacy" /\ SameArgs
    /\ dec.st = "ready" /\ dec.size = None

\* C6: key derivation. With a secret that is absent or shorter than
\* SECRET_LENGTH no BlobEncryptor and no BlobDecryptor is constructed and no
\* key is derived: the constructors fail with EncryptionDecryptionError.
C6_ShortSecretRefused ==
    /\ (enc.st # "idle" /\ Len(enc.secret) < SECRET_LENGTH)
          => /\ enc.st = "failed" /\ enc.err = "EncryptionDecryptionError"
             /\ enc.sym_key = <<>>
    /\ (dec.st # "idle" /\ Len(dec.secret) < SECRET_LENGTH)
          => /\ dec.st = "failed" /\ dec.err = "EncryptionDecryptionError"

\* C7: key length. An AESWriter constructed with a key that is not 32 bytes
\* long, directly or by encrypt_sym or decrypt_sym, in GCM or CTR mode, with
\* or without a tag, raises EncryptionDecryptionError; no cipher context is
\* created and encrypt_sym / decrypt_sym return nothing.
C7_KeyLength ==
    (sym.st \notin {"off", "idle"} /\ Len(sym.key) # KEY_LEN)
        => /\ sym.st \in {"writer", "failed"}
           /\ sym.aes.err = "EncryptionDecryptionError"
           /\ ~sym.aes.cipher.made
           /\ sym.out = <<>>
           /\ sym.st = "failed" => sym.err = "EncryptionDecryptionError"

\* C7 witness: decrypt_sym was called with a 33-byte key on what encrypt_sym
\* returned for a 32-byte key
C7_Witness ==
    /\ sym.st = "failed" /\ Len(sym.key) = KEY_LEN + 1
    /\ sym.iv # <<>> /\ sym.data # <<>>
    /\ sym.err = "EncryptionDecryptionError"

\* the file of an upload
PathOf(a) == Components(get_path(a.user, a.blob_id))

\* C8: duplicate prevention. A write_blob for a (user, blob_id) whose file
\* exists is not accepted; it is answered 409 and changes no file, directory
\* or upload; and the file of a finished upload holds its bytes ever after.
C8_FirstWriteWins ==
    [][/\ \A a \in PutArgs :
              PathOf(a) \in DOMAIN fs
                  => /\ a \notin (log'.accepted \ log.accepted)
                     /\ (/\ log.last = NoResponse
                         /\ log'.last.op = "PUT" /\ log'.last.code # 200
                         /\ log'.last.user = a.user
                         /\ log'.last.blob_id = a.blob_id)
                            => /\ log'.last.code = 409
                               /\ fs' = fs /\ dirs' = dirs /\ uploads' = uploads
       /\ \A f \in log'.finished :
              PathOf(f) \in DOMAIN fs' /\ fs'[PathOf(f)] = f.content]_vars

\* C8 witness: a second write_blob for a finished upload was answered 409
C8_Witness ==
    /\ log.last.op = "PUT" /\ log.last.code = 409
    /\ \E f \in log.finished :
           /\ f.user = log.last.user /\ f.blob_id = log.last.blob_id
           /\ fs[PathOf(f)] = f.content

\* C9: upload/download round trip. read_blob for a finished upload answers
\* 200 with exactly the uploaded bytes, in every state that follows.
C9_UploadDownload ==
    \A f \in log.finished :
        read_blob(dirs, fs, f.user, f.blob_id)
            = Response("READ", f.user, f.blob_id, 200, f.content, {})

\* C9 witness: read_blob answered the 17 bytes of a finished upload while
\* another upload had finished too
C9_Witness ==
    /\ log.last.op = "READ" /\ log.last.code = 200
    /\ Len(log.last.body) = 17
    /\ \E f, g \in log.finished :
           /\ f # g
           /\ f.user = log.last.user /\ f.blob_id = log.last.blob_id
           /\ f.content = log.last.body

\* C10: list_blobs(user) is exactly the set of the blob ids accepted for the
\* user.
C10_ListIsAccepted ==
    \A user \in Users :
        list_blobs(fs, user) = {a.blob_id : a \in {b \in log.accepted : b.user = user}}

\* C11: one-shot round trip. decrypt_sym called with the 32-byte key and the
\* method of encrypt_sym on the (iv, ciphertext) pair encrypt_sym returned
\* returns the data that was encrypted, for GCM and for CTR.
C11_OneShotRoundTrip ==
    [][(/\ sym.st = "encrypted" /\ sym'.st # "encrypted"
        /\ Len(sym.key) = KEY_LEN
        /\ sym'.key = sym.key /\ sym'.method = sym.method /\ sym'.data = sym.out)
          => /\ sym'.st = "decrypted"
             /\ sym'.out = sym.orig
             /\ sym'.err = ""]_vars

\* C11 witness: 'rosa de foc' came back from decrypt_sym in GCM mode, the tag
\* verified
C11_Witness ==
    /\ sym.st = "decrypted" /\ sym.method = ENC_METHOD_aes_256_gcm
    /\ sym.orig = BigClear /\ sym.out = BigClear
    /\ sym.aes.cipher.verified

\* C12: unarmored round trip. A BlobDecryptor constructed with armor=False
\* on the blob of a BlobEncryptor with armor=False, for the same doc_info and
\* secret, does not fail, and decrypt() delivers exactly the cleartext.
C12_UnarmoredRoundTrip ==
    (/\ enc.st = "done" /\ ~enc.armor /\ ValidIds /\ forged = "none"
     /\ dec.st # "idle" /\ ~dec.armor
     /\ dec.doc_id = enc.doc_id /\ dec.rev = enc.rev /\ dec.secret = enc.secret)
        => /\ dec.st # "failed"
           /\ dec.st = "done" => dec.out = Some(enc.content)

\* the blob is as BlobEncryptor.encrypt delivered it
BlobDelivered == enc.st = "done" /\ blob # <<>> /\ forged = "none"

\* the bytes of ciphertext and tag in the delivered blob: the last segment
\* base64-decoded when armored, the bytes after the separator otherwise
BlobPayload ==
    IF enc.armor THEN urlsafe_b64decode(SplitParts(blob).rest).val
    ELSE SliceFrom(blob, Len(urlsafe_b64encode(enc.aes.aead)) + 1)

\* C13: the delivered blob ends with the 16-byte GCM tag: the last 16 bytes of
\* the output (armor=False) or of the base64-decoded payload segment
\* (armor=True) are the value of the encryptor's tag accessor.
C13_TagTrails ==
    BlobDelivered
        => /\ AESWriter_tag(enc.aes) # None
           /\ Len(AESWriter_tag(enc.aes)[1]) = TAG_LEN
           /\ IF enc.armor
              THEN TakeLast(urlsafe_b64decode(SplitParts(blob).rest).val, TAG_LEN)
                       = AESWriter_tag(enc.aes)[1]
              ELSE TakeLast(blob, TAG_LEN) = AESWriter_tag(enc.aes)[1]

\* C13 witness: the armored blob of 'rosa de foc' was delivered, 27 bytes of
\* payload with the tag last
C13_Witness ==
    /\ BlobDelivered /\ enc.armor /\ enc.content = BigClear
    /\ Len(BlobPayload) = Len(BigClear) + TAG_LEN
    /\ TakeLast(BlobPayload, TAG_LEN) = AESWriter_tag(enc.aes)[1]

\* C14 as stated: armored, the blob is base64(preamble), a separator byte,
\* base64(ciphertext tag); unarmored, it is the raw preamble directly followed
\* by ciphertext and tag.
C14_WireFormatRaw ==
    BlobDelivered
        => blob = IF enc.armor
                  THEN urlsafe_b64encode(enc.aes.aead) \o SEPARATOR
                           \o urlsafe_b64encode(enc.aes.buffer
                                                    \o AESWriter_tag(enc.aes)[1])
                  ELSE enc.aes.aead \o enc.aes.buffer \o AESWriter_tag(enc.aes)[1]

\* C14 amended: the blob always starts with base64(preamble) and one separator
\* byte; what follows is base64(ciphertext tag) when armored and the raw
\* ciphertext and tag when not.
C14_WireFormat ==
    BlobDelivered
        => LET head == urlsafe_b64encode(enc.aes.aead)
               body == enc.aes.buffer \o AESWriter_tag(enc.aes)[1]
           IN  /\ Len(enc.aes.aead) = PACMAN_size
               /\ SliceTo(blob, Len(head)) = head
               /\ SubSeq(blob, Len(head) + 1, Len(head) + 1) = SEPARATOR
               /\ SliceFrom(blob, Len(head) + 1)
                      = IF enc.armor THEN urlsafe_b64encode(body) ELSE body
               /\ Len(body) = Len(enc.content) + TAG_LEN

\* C14 witness: the unarmored blob of 'rosa de foc' was delivered: the encoded
\* preamble, the separator, 27 raw bytes
C14_Witness ==
    /\ BlobDelivered /\ ~enc.armor /\ enc.content = BigClear
    /\ Len(blob) = Len(urlsafe_b64encode(enc.aes.aead)) + 1 + Len(BigClear) + TAG_LEN
    /\ urlsafe_b64decode(SliceTo(blob, 736)).val = enc.aes.aead

\* C15: the JSON string encrypt_doc produces satisfies
\* is_symmetrically_encrypted, and is_symmetrically_encrypted is false for a
\* content that is empty or does not begin with '{"raw": "EzcB'.
C15_EncryptedPrefix ==
    doc.st = "examined"
        => /\ (doc.json # <<>> /\ doc.content = doc.json) => doc.encrypted
           /\ (\/ doc.content = <<>>
               \/ Len(doc.content) < 13
               \/ \E i \in 1..13 : doc.content[i] # EncryptedPrefix[i])
                  => ~doc.encrypted

\* C15 witness: the JSON string of an encrypted document was examined and
\* found encrypted
C15_Witness ==
    /\ doc.st = "examined" /\ doc.json # <<>> /\ doc.content = doc.json
    /\ enc.content = BigClear /\ doc.encrypted

\* C16: each preamble validation failure raises InvalidBlob with a reason that
\* identifies the check that failed: a BlobDecryptor given an untouched blob
\* with the right rev and another doc_id fails with a reason that is not the
\* one of a revision mismatch.
C16_IdMismatchReason ==
    (/\ enc.st = "done" /\ enc.armor /\ ValidIds /\ forged = "none"
     /\ dec.st = "failed" /\ dec.armor /\ dec.err = "InvalidBlob"
     /\ dec.rev = enc.rev /\ dec.doc_id # enc.doc_id)
        => dec.reason # "invalid revision"

\* C17: a write on an AESWriter whose end() has run is an error and appends
\* nothing to the buffer; the finalized cipher takes no further chunk.
C17_NoWriteAfterEnd ==
    [][(/\ sym.st \in {"writer", "written", "ended"}
        /\ sym.aes.err = "" /\ sym.aes.cipher.finalized
        /\ sym'.st = "written")
          => /\ sym'.aes.err = "AlreadyFinalized"
             /\ sym'.aes.buffer = sym.aes.buffer
             /\ sym'.aes.cipher = sym.aes.cipher]_vars

\* C17 witness: a chunk was written, end() ran, and a second write was refused
C17_Witness ==
    /\ sym.st = "written" /\ sym.aes.err = "AlreadyFinalized"
    /\ sym.aes.cipher.finalized /\ sym.aes.cipher.n > 0 /\ sym.aes.buffer # <<>>

\* C18: when the tag of a blob does not verify, the cleartext accumulated in
\* the result buffer is discarded: once the stream of a blob with a flipped
\* payload or tag bit has ended, the result buffer holds no decrypted bytes.
C18_TamperedResultDiscarded ==
    (/\ SameArgs /\ ValidIds /\ forged = "flip"
     /\ dec.st \in {"done", "failed"} /\ dec.aes.cipher.finalized)
        => dec.aes.buffer = <<>>

\* C19: the file a BlobEncryptor reads the cleartext from and the file a
\* BlobDecryptor reads the ciphertext from are closed once the operation has
\* ended, whether it succeeded or failed.
C19_SourcesClosed ==
    /\ enc.st \in {"done", "stopped"} => enc.fdClosed
    /\ dec.st \in {"done", "failed"} => dec.fdClosed

\* C20: once the producer of a BlobEncryptor was stopped, AESWriter.end is
\* never called and encrypt() never delivers a blob.
C20_StoppedNeverDelivers ==
    [](enc.st = "stopped"
        => [](/\ enc.st = "stopped" /\ ~enc.aes.cipher.finalized
              /\ blob = <<>> /\ enc.aes.cipher.tag = None))

\* C20 witness: the producer was stopped after a chunk of cleartext had been
\* encrypted and before the source was found exhausted
C20_Witness ==
    /\ enc.st = "stopped" /\ enc.fdpos > 0 /\ enc.aes.buffer # <<>>
    /\ ~enc.aes.cipher.finalized /\ blob = <<>>

\* the calls made on an AESWriter by a run that has written chunks of ReadSize
\* bytes up to offset pos of its source, and has ended or not
RunCalls(pos, ended) ==
    <<"authenticate">> \o Rep("write", (pos + ReadSize - 1) \div ReadSize)
        \o (IF ended THEN <<"end">> ELSE <<>>)

\* the bytes a cipher context returns for data when fed in one update from
\* offset 0
OneUpdate(c, data) == CipherUpdateOut([c EXCEPT !.n = 0], data)

\* C21: in every BlobEncryptor and BlobDecryptor run authenticate is called
\* once, with the preamble and before the first write; the chunks are written
\* in source order, every source byte once; end is called once, after the last
\* chunk.
C21_CallOrder ==
    /\ enc.st \in {"init", "producing", "done", "stopped"}
        => /\ enc.aes.calls = RunCalls(enc.fdpos, enc.st = "done")
           /\ \E t \in Timestamps :
                  enc.aes.aead = encode_preamble(enc.doc_id, enc.rev, enc.aes.iv,
                                                 enc.content_size, t)
           /\ enc.aes.cipher.n = enc.fdpos
           /\ enc.aes.buffer = OneUpdate(enc.aes.cipher, SubSeq(enc.content, 1, enc.fdpos))
           /\ enc.st = "done" => enc.fdpos = Len(enc.content)
    /\ dec.st \in {"ready", "producing", "done"}
        => LET pos == IF dec.st = "done" THEN Len(dec.fd) ELSE dec.fdpos
           IN  /\ dec.aes.calls = RunCalls(pos, dec.st = "done")
               /\ forged = "none" => dec.aes.aead = enc.aes.aead
               /\ Len(dec.aes.aead) \in {PACMAN_size, LEGACY_PACMAN_size}
               /\ dec.aes.cipher.n = Len(urlsafe_b64decode(SubSeq(dec.fd, 1, pos)).val)

\* C21 witness: a three-chunk cleartext was encrypted and its blob decrypted
C21_Witness ==
    /\ enc.st = "done" /\ enc.content = BigClear /\ Len(enc.aes.calls) = 5
    /\ dec.st = "done" /\ Len(dec.aes.calls) > 5

\* C22: two operations on different documents whose steps are interleaved
\* each deliver what they deliver when run alone, and a step of one leaves the
\* record and the buffer of the other as they were.
C22_Isolation ==
    [][\A i \in 1..2 :
          /\ OpDone(ops'.run[i])
                => OpResult(ops'.bufs, ops'.run[i]) = AloneResult(ops.first[i])
          /\ ops'.run[3 - i] # ops.run[3 - i]
                => /\ ops'.run[i] = ops.run[i]
                   /\ ops.run[i].buf # 0
                         => ops'.bufs[ops.run[i].buf] = ops.bufs[ops.run[i].buf]]_vars

\* C22 witness: an encryption of three chunks and a decryption both finished,
\* after the decryption had started while the encryption was writing
C22_Witness ==
    /\ ops # <<>>
    /\ ops.run[1].kind = "enc" /\ ops.run[1].r.st = "done"
    /\ ops.run[1].r.content = BigClear
    /\ ops.run[2].kind = "dec" /\ ops.run[2].r.st = "done"
    /\ ops.run[1].buf = 2 /\ ops.run[2].buf = 1
    /\ OpResult(ops.bufs, ops.run[2]) = <<98>>

\* the writer of a BlobEncryptor had it been given the whole cleartext in one
\* write, with the key, the iv and the preamble of e
SingleWrite(e) ==
    AESWriter_end(
        AESWriter_write(
            AESWriter_authenticate(
                AESWriter_init(e.sym_key, None, <<>>, None, "GCM", e.aes.iv),
                e.aes.aead),
            e.content))

\* the bytes of the whole payload of a BlobDecryptor decoded at once
WholePayload(d) == urlsafe_b64decode(d.fd).val

\* C23: chunk-boundary independence. The chunks a BlobDecryptor decodes one
\* by one and feeds to its cipher are the bytes of the payload decoded at
\* once, and the blob of a BlobEncryptor is the one a single write of the
\* whole cleartext gives for the same key, iv and preamble.
C23_ChunkIndependence ==
    /\ BlobDelivered => blob = end_crypto_stream(enc.armor, SingleWrite(enc))
    /\ (dec.st = "producing" /\ urlsafe_b64decode(dec.fd).err = "")
        => dec.aes.buffer
             = OneUpdate(dec.aes.cipher, SubSeq(WholePayload(dec), 1, dec.aes.cipher.n))
    /\ dec.st = "done"
        => /\ dec.aes.cipher.n = Len(WholePayload(dec))
           /\ dec.aes.buffer
                = DropLast(OneUpdate(dec.aes.cipher, WholePayload(dec)), TAG_LEN)
           /\ dec.aes.cipher.ctH
                = CipherUpdate([dec.aes.cipher EXCEPT !.n = 0, !.ctH = 0],
                               WholePayload(dec)).ctH

\* C23 witness: a blob of three cleartext chunks was decrypted in several
\* chunks
C23_Witness ==
    /\ enc.st = "done" /\ enc.content = BigClear /\ forged = "none"
    /\ dec.st = "done" /\ dec.aes.cipher.n > 2 * ReadSize
    /\ dec.out = Some(BigClear)

\* whether the last TAG_LEN bytes of data are the GCM tag of the bytes before
\* them under key and iv
ValidTag(data, key, iv) ==
    /\ Len(data) >= TAG_LEN
    /\ TakeLast(data, TAG_LEN)
         = GcmTag(CipherUpdate(get_aes_cipher(key, iv, None, "GCM", TRUE),
                               DropLast(data, TAG_LEN)))

\* C24: decrypt_sym in GCM mode returns a plaintext only when the last 16
\* bytes of data are the valid tag of the ciphertext before them under the key
\* and iv given; on data with a modified ciphertext or tag, or shorter than 16
\* bytes, it raises and returns nothing.
C24_GcmAuthenticated ==
    [][(/\ sym.st = "encrypted" /\ sym.method = ENC_METHOD_aes_256_gcm
        /\ sym'.st # "encrypted")
          => /\ sym'.st \in {"decrypted", "failed"}
             /\ sym'.st = "decrypted"
                   => ValidTag(sym'.data, sym'.key, b64decode(sym'.iv).val)
             /\ (sym'.data # sym.out \/ Len(sym'.data) < TAG_LEN)
                   => sym'.st = "failed" /\ sym'.out = <<>>]_vars

\* C24 witness: decrypt_sym in GCM mode was refused a ciphertext and tag with
\* the right key length because the tag did not verify
C24_Witness ==
    /\ sym.st = "failed" /\ sym.err = "InvalidTag"
    /\ sym.method = ENC_METHOD_aes_256_gcm /\ sym.orig = BigClear
    /\ Len(sym.data) = Len(BigClear) + TAG_LEN /\ sym.out = <<>>

\* C25: a doc_id and a rev of 0 up to 255 bytes are carried unchanged through
\* the preamble: the blob encrypted for them is accepted by a BlobDecryptor
\* given the same doc_id, rev and secret.
C25_LongIdsCarried ==
    (/\ enc.st = "done" /\ enc.armor /\ forged = "none"
     /\ Len(enc.doc_id) <= PSTR_LEN /\ Len(enc.rev) <= PSTR_LEN
     /\ dec.st # "idle" /\ dec.armor /\ dec.secret # <<>>
     /\ dec.doc_id = enc.doc_id /\ dec.rev = enc.rev /\ dec.secret = enc.secret)
        => dec.st # "failed"

\* C27: constructing a BlobDecryptor with a secret and armor=True on any
\* bytes succeeds or raises InvalidBlob; no other exception leaves the
\* constructor.
C27_OnlyInvalidBlob ==
    (/\ dec.st = "failed" /\ dec.armor /\ dec.secret # <<>>
     /\ ~dec.aes.cipher.made)
        => dec.err = "InvalidBlob"

\* C28: while the body of an upload is being transferred, read_blob does not
\* answer with its file and list_blobs does not list its id.
C28_UnfinishedHidden ==
    \A u \in uploads :
        /\ (log.last.op = "LIST" /\ log.last.user = u.user)
              => u.blob_id \notin log.last.ids
        /\ (/\ log.last.op \in {"READ", "GET"}
            /\ log.last.user = u.user /\ log.last.blob_id = u.blob_id)
              => log.last.code # 200

\* C26: dry run. When migrate runs with do_migrate false no step saves or
\* deletes a document: every database stays as it was.
C26_DryRun ==
    [][(mig.st # "off" /\ ~mig.do_migrate) => couch' = couch]_vars

\* C26 witness: a dry run went through the transaction log, the config
\* document and the sync documents of a database and reached the last design
\* document
C26_Witness ==
    /\ mig.st = "running" /\ ~mig.do_migrate /\ mig.run = 1
    /\ mig.db = <<"user-", 1>> /\ mig.step = "design" /\ mig.i = Len(DesignDocs)
    /\ SyncId(2) \in DOMAIN couch[mig.db] /\ UserDocId(2) \in DOMAIN couch[mig.db]
    /\ couch = mig.first

\* C29: idempotence. A second run of migrate with do_migrate, after a first
\* run that finished or that stopped part-way through a database, leaves
\* every database as the first run left it.
C29_SecondRunNoChange ==
    (/\ mig.st # "off" /\ mig.do_migrate /\ mig.run = 2
     /\ \/ mig.prev.st = "done"
        \/ mig.prev.st = "stopped" /\ mig.prev.db # NoDb)
        => couch = mig.left

\* the rows of the transaction log of database name before the migration
FirstLog(name) == get_transaction_log(mig.first[name]).rows

\* C30: during a migration with do_migrate the new config document and each
\* new sync document is saved before the old one is deleted, and the steps
\* run in the order transaction log, config document, sync documents, design
\* documents: at every moment the replica uid and each sync generation and
\* transaction id are in the old or in the new document.
C30_SaveBeforeDelete ==
    (mig.st # "off" /\ mig.do_migrate)
        => \A name \in {n \in DOMAIN couch : n[1] = "user-"} :
             /\ \/ /\ ConfigId \in DOMAIN couch[name]
                   /\ couch[name][ConfigId] = mig.first[name][ConfigId]
                \/ /\ NewConfigId \in DOMAIN couch[name]
                   /\ couch[name][NewConfigId].replica_uid
                        = mig.first[name][ConfigId].replica_uid
             /\ \A r \in {q \in 1..(MaxReplicas + 1) : SyncId(q) \in DOMAIN mig.first[name]} :
                   \/ /\ SyncId(r) \in DOMAIN couch[name]
                      /\ couch[name][SyncId(r)] = mig.first[name][SyncId(r)]
                   \/ /\ NewSyncId(r) \in DOMAIN couch[name]
                      /\ couch[name][NewSyncId(r)] = new_sync_doc(mig.first[name], r)
             /\ NewConfigId \in DOMAIN couch[name]
                   => \A g \in 1..Len(FirstLog(name)) :
                         /\ GenId(g) \in DOMAIN couch[name]
                         /\ couch[name][GenId(g)] = FirstLog(name)[g]
             /\ (\E r \in 1..(MaxReplicas + 1) : NewSyncId(r) \in DOMAIN couch[name])
                   => ConfigId \notin DOMAIN couch[name]
             /\ (\E i \in 1..Len(DesignDocs) :
                     DesignId(DesignDocs[i]) \notin DOMAIN couch[name])
                   => \A r \in 1..(MaxReplicas + 1) : SyncId(r) \notin DOMAIN couch[name]

\* C30 witness: the old and the new config document exist side by side, and
\* so do the old and the new sync document of the second replica
C30_Witness ==
    /\ mig.st = "running" /\ mig.do_migrate /\ mig.step = "sync_delete"
    /\ mig.rows[mig.i] = 2
    /\ {SyncId(2), NewSyncId(2), NewSyncId(1), NewConfigId, GenId(2)}
          \subseteq DOMAIN couch[mig.db]
    /\ ConfigId \notin DOMAIN couch[mig.db]


\* C31: the size BlobEncryptor writes in the preamble is the number of cleartext
\* bytes encrypt() feeds to the cipher, and encrypt() starts reading the source
\* at offset 0, also when the source was written to after construction
C31_SizeIsBytesFed ==
    [][/\ (enc.st = "init" /\ enc'.st = "producing") => enc.fdpos = 0
       /\ enc'.st = "done" =>
              /\ PACMAN_unpack(enc'.aes.aead).doc_size = enc'.aes.cipher.n
              /\ enc'.aes.cipher.n = Len(enc'.content)]_vars


\* the usage write_blob measures for the request it has just handled: du of the
\* user's directory after os.makedirs, over the files as they were
UsedAtRequest(user) == get_total_storage(dirs', fs, user)

\* C32: quota. write_blob stores a new blob only when the user's usage measured
\* at the request is not above the quota; a request for a blob id that is not
\* stored yet, made when the usage is above the quota, is answered 507; a 507
\* is given only above the quota, creates no file and leaves the stored blobs
\* and the uploads as they were.
C32_Quota ==
    [][/\ \A a \in log'.accepted \ log.accepted : UsedAtRequest(a.user) <= Quota
       /\ DOMAIN fs' # DOMAIN fs => log'.accepted # log.accepted
       /\ (log.last = NoResponse /\ log'.last.op = "PUT" /\ log'.last.code # 200)
              => /\ (/\ UsedAtRequest(log'.last.user) > Quota
                     /\ Components(get_path(log'.last.user, log'.last.blob_id))
                            \notin DOMAIN fs)
                        => log'.last.code = 507
                 /\ log'.last.code = 507
                        => /\ UsedAtRequest(log'.last.user) > Quota
                           /\ fs' = fs /\ uploads' = uploads
                           /\ log'.accepted = log.accepted]_vars

\* C32 witness: with a blob stored, a request for another blob id of the same
\* user, whose usage is above the quota, was answered 507
C32_Witness ==
    /\ log.last.op = "PUT" /\ log.last.code = 507
    /\ Components(get_path(log.last.user, log.last.blob_id)) \notin DOMAIN fs
    /\ get_total_storage(dirs, fs, log.last.user) > Quota
    /\ \E f \in log.finished : f.user = log.last.user /\ fs[PathOf(f)] = f.content

\* C32 as stated: every write_blob made when the usage is above the quota is
\* answered 507
C32_QuotaAlways507 ==
    [][/\ \A a \in log'.accepted \ log.accepted : UsedAtRequest(a.user) <= Quota
       /\ DOMAIN fs' # DOMAIN fs => log'.accepted # log.accepted
       /\ (log.last = NoResponse /\ log'.last.op = "PUT" /\ log'.last.code # 200
           /\ UsedAtRequest(log'.last.user) > Quota)
              => /\ log'.last.code = 507
                 /\ fs' = fs /\ uploads' = uploads]_vars

====
